---- MODULE Spec2Model ----
(***************************************************************************)
(* Self-healing element resolution engine of saucedemo-tests               *)
(* (utils/selfHealing.ts, pages/SelfHealingBasePage.ts).                   *)
(*                                                                         *)
(* Every await on the page automation surface is one step of the model.    *)
(* The outcome of a visibility wait is fixed by the page state (the set    *)
(* `visible`); the outcome of every other surface call (click, fill,       *)
(* screenshot, ...) is chosen by the environment.  `trace` records, per    *)
(* engine, the surface calls of the operation in progress, in order.       *)
(***************************************************************************)
EXTENDS Integers, Sequences, FiniteSets, TLC

VARIABLES engines, config, supplied, healingLog, pc, call, idx, element, trace, result,
          logStart, visible, inputValue, selected, inputStart, lastError, error,
          held, exporting, report, document

vars == <<engines, config, supplied, healingLog, pc, call, idx, element, trace, result,
          logStart, visible, inputValue, selected, inputStart, lastError, error,
          held, exporting, report, document>>

(***************************************************************************)
(* Bounds                                                                  *)
(***************************************************************************)
MaxFallbacks == 2
MaxRetriesBound == 2
MaxLog == 1

EngineIds == {1, 2}

(***************************************************************************)
(* Strings that the code inspects are sequences of one-character strings.  *)
(***************************************************************************)
UpperToLower ==
    [c \in {"A","B","C","D","E","F","G","H","I","J","K","L","M","N","O","P",
            "Q","R","S","T","U","V","W","X","Y","Z"} |->
       CASE c = "A" -> "a" [] c = "B" -> "b" [] c = "C" -> "c" [] c = "D" -> "d"
         [] c = "E" -> "e" [] c = "F" -> "f" [] c = "G" -> "g" [] c = "H" -> "h"
         [] c = "I" -> "i" [] c = "J" -> "j" [] c = "K" -> "k" [] c = "L" -> "l"
         [] c = "M" -> "m" [] c = "N" -> "n" [] c = "O" -> "o" [] c = "P" -> "p"
         [] c = "Q" -> "q" [] c = "R" -> "r" [] c = "S" -> "s" [] c = "T" -> "t"
         [] c = "U" -> "u" [] c = "V" -> "v" [] c = "W" -> "w" [] c = "X" -> "x"
         [] c = "Y" -> "y" [] c = "Z" -> "z"]

toLowerCase(s) ==
    [i \in 1..Len(s) |-> IF s[i] \in DOMAIN UpperToLower THEN UpperToLower[s[i]] ELSE s[i]]

includes(s, kw) ==
    \E i \in 0..(Len(s) - Len(kw)) : SubSeq(s, i + 1, i + Len(kw)) = kw

(***************************************************************************)
(* A selector is a template and the description spliced into it; a         *)
(* literal selector has an empty splice.                                   *)
(***************************************************************************)
Sel(t) == [tpl |-> t, arg |-> <<>>]
Tpl(t, d) == [tpl |-> t, arg |-> d]
NoSel == Sel("")

kwLogin == <<"l","o","g","i","n">>
kwAdd == <<"a","d","d">>
kwCart == <<"c","a","r","t">>
kwCheckout == <<"c","h","e","c","k","o","u","t">>
kwUsername == <<"u","s","e","r","n","a","m","e">>
kwPassword == <<"p","a","s","s","w","o","r","d">>
kwEmail == <<"e","m","a","i","l">>

\* A plausible slip: the login-keyword candidates are tried before the
\* description-based ones.
findButtonByContext_LoginFirst(description) ==
    (IF includes(description, kwLogin)
     THEN <<Sel("button[type=\"submit\"]"), Sel("[data-test*=\"login\"]"),
            Sel("[id*=\"login\"]"), Sel(".login-btn")>>
     ELSE <<>>)
    \o <<Tpl("button:has-text(\"${description}\")", description),
         Tpl("[role=\"button\"]:has-text(\"${description}\")", description),
         Tpl("input[type=\"button\"][value*=\"${description}\"]", description),
         Tpl("input[type=\"submit\"][value*=\"${description}\"]", description),
         Tpl(".btn:has-text(\"${description}\")", description),
         Tpl(".button:has-text(\"${description}\")", description)>>

findButtonByContext(description) ==
    <<Tpl("button:has-text(\"${description}\")", description),
      Tpl("[role=\"button\"]:has-text(\"${description}\")", description),
      Tpl("input[type=\"button\"][value*=\"${description}\"]", description),
      Tpl("input[type=\"submit\"][value*=\"${description}\"]", description),
      Tpl(".btn:has-text(\"${description}\")", description),
      Tpl(".button:has-text(\"${description}\")", description)>>
    \o (IF includes(description, kwLogin)
        THEN <<Sel("button[type=\"submit\"]"), Sel("[data-test*=\"login\"]"),
               Sel("[id*=\"login\"]"), Sel(".login-btn")>>
        ELSE <<>>)
    \o (IF includes(description, kwAdd) /\ includes(description, kwCart)
        THEN <<Sel("[data-test*=\"add-to-cart\"]"), Sel("[data-test*=\"add\"]"),
               Sel(".add-to-cart"), Sel("button:has-text(\"Add\")")>>
        ELSE <<>>)
    \o (IF includes(description, kwCheckout)
        THEN <<Sel("[data-test*=\"checkout\"]"), Sel(".checkout-btn"),
               Sel("button:has-text(\"Checkout\")")>>
        ELSE <<>>)

findInputByContext(description) ==
    <<Tpl("input[placeholder*=\"${description}\"]", description),
      Tpl("input[name*=\"${description}\"]", description),
      Tpl("input[id*=\"${description}\"]", description),
      Tpl("[data-test*=\"${description}\"]", description)>>
    \o (IF includes(description, kwUsername)
        THEN <<Sel("input[type=\"text\"]"), Sel("input[name=\"username\"]"),
               Sel("input[name=\"user\"]"), Sel("input[id*=\"username\"]"),
               Sel("input[id*=\"user\"]")>>
        ELSE <<>>)
    \o (IF includes(description, kwPassword)
        THEN <<Sel("input[type=\"password\"]"), Sel("input[name=\"password\"]"),
               Sel("input[name=\"pass\"]"), Sel("input[id*=\"password\"]")>>
        ELSE <<>>)
    \o (IF includes(description, kwEmail)
        THEN <<Sel("input[type=\"email\"]"), Sel("input[name=\"email\"]"),
               Sel("input[id*=\"email\"]")>>
        ELSE <<>>)

findLinkByContext(description) ==
    <<Tpl("a:has-text(\"${description}\")", description),
      Tpl("[role=\"link\"]:has-text(\"${description}\")", description),
      Tpl("a[href*=\"${description}\"]", description),
      Tpl(".link:has-text(\"${description}\")", description)>>

findTextByContext(description) ==
    <<Tpl(":text(\"${description}\")", description),
      Tpl(":text-is(\"${description}\")", description),
      Tpl("*:has-text(\"${description}\")", description),
      Tpl("[aria-label*=\"${description}\"]", description),
      Tpl(".text:has-text(\"${description}\")", description)>>

findGenericByContext(description) ==
    <<Tpl("[data-test*=\"${description}\"]", description),
      Tpl("[data-testid*=\"${description}\"]", description),
      Tpl("[id*=\"${description}\"]", description),
      Tpl("[class*=\"${description}\"]", description),
      Tpl("[aria-label*=\"${description}\"]", description),
      Tpl(":has-text(\"${description}\")", description)>>

\* A plausible slip: the description is used as written, not lower-cased.
intelligentFallback_CaseSensitive(elementType, description) ==
    CASE elementType = "button" -> findButtonByContext(description)
      [] elementType = "input" -> findInputByContext(description)
      [] elementType = "link" -> findLinkByContext(description)
      [] elementType = "text" -> findTextByContext(description)
      [] OTHER -> findGenericByContext(description)

\* The ordered candidate list that intelligentFallback hands to tryStrategies.
intelligentFallback(elementType, description) ==
    LET lowerDescription == toLowerCase(description) IN
    CASE elementType = "button" -> findButtonByContext(lowerDescription)
      [] elementType = "input" -> findInputByContext(lowerDescription)
      [] elementType = "link" -> findLinkByContext(lowerDescription)
      [] elementType = "text" -> findTextByContext(lowerDescription)
      [] OTHER -> findGenericByContext(lowerDescription)

\* Per-candidate waitFor timeouts (ms).
PrimaryTimeout == 5000
FallbackTimeout == 3000
HeuristicTimeout == 2000

(***************************************************************************)
(* Strategies handed to the engine: the login-page catalog, descriptions   *)
(* shortened, fallback lists cut to MaxFallbacks.                          *)
(***************************************************************************)
USERNAME_INPUT ==
    [primary |-> Sel("[data-test=\"username\"]"),
     fallbacks |-> <<Sel("input[name=\"user-name\"]"),
                     Sel("input[placeholder*=\"Username\"]"),
                     Sel("input[id*=\"username\"]"),
                     Sel("input[type=\"text\"]")>>,
     description |-> <<"U","s","e","r","n","a","m","e">>,
     elementType |-> "input"]

LOGIN_BUTTON ==
    [primary |-> Sel("[data-test=\"login-button\"]"),
     fallbacks |-> <<Sel("input[type=\"submit\"]"),
                     Sel("button[type=\"submit\"]"),
                     Sel(".btn_action"),
                     Sel(".login-btn")>>,
     description |-> <<"L","o","g","i","n">>,
     elementType |-> "button"]

ERROR_MESSAGE ==
    [primary |-> Sel("[data-test=\"error\"]"),
     fallbacks |-> <<>>,
     description |-> <<"e","r","r","o","r">>,
     elementType |-> "text"]

Cut(s) ==
    [s EXCEPT !.fallbacks =
        SubSeq(s.fallbacks, 1, IF Len(s.fallbacks) < MaxFallbacks
                                 THEN Len(s.fallbacks) ELSE MaxFallbacks)]

Strategies == {Cut(USERNAME_INPUT), Cut(LOGIN_BUTTON), Cut(ERROR_MESSAGE)}

Range(s) == {s[i] : i \in 1..Len(s)}

Candidates(s) ==
    <<s.primary>> \o s.fallbacks \o intelligentFallback(s.elementType, s.description)

\* The pages an operation may run against.  The engine probes the candidates
\* in order and stops at the first visible one, so a page matters only through
\* the candidates it shows: none of them, exactly one of them, or all of them.
PageStates(s) ==
    {{}} \cup {{c} : c \in Range(Candidates(s))} \cup {Range(Candidates(s))}

Values == {<<"a","b">>}
InitialValues == {<<>>, <<"x">>}
\* What the element on the page reads as: an element may have no text at all.
Texts == {<<>>, <<"t">>}
Platforms == {"linux", "darwin"}

(***************************************************************************)
(* Engine configuration                                                    *)
(***************************************************************************)
DefaultMaxRetries == 3
DefaultRetryDelay == 1000

ConfigFields == {"maxRetries", "retryDelay", "enableLogging", "screenshotOnFailure"}

\* Partial<SelfHealingConfig>: the fields in `has` are supplied, with the values in `val`.
\* An engine is built with no config, with maxRetries alone, or with every field.
PartialConfigs ==
    {[has |-> h, val |-> v] :
        h \in {{}, {"maxRetries"}, ConfigFields},
        v \in [maxRetries : 1..MaxRetriesBound, retryDelay : {100},
               enableLogging : {FALSE}, screenshotOnFailure : {FALSE}]}

\* The fields of its argument the constructor was called with.
Given(partial) == [f \in partial.has |-> partial.val[f]]

\* A plausible slip: the spread is written the other way round
\* ({...config, maxRetries: 3, ...}), so the defaults always win.
constructor_DefaultsWin(partial) ==
    [maxRetries |-> DefaultMaxRetries, retryDelay |-> DefaultRetryDelay,
     enableLogging |-> TRUE, screenshotOnFailure |-> TRUE]

\* The SelfHealingUtils constructor: defaults, overridden by the supplied fields.
constructor(partial) ==
    [maxRetries |-> IF "maxRetries" \in partial.has
                    THEN partial.val.maxRetries ELSE DefaultMaxRetries,
     retryDelay |-> IF "retryDelay" \in partial.has
                    THEN partial.val.retryDelay ELSE DefaultRetryDelay,
     enableLogging |-> IF "enableLogging" \in partial.has
                       THEN partial.val.enableLogging ELSE TRUE,
     screenshotOnFailure |-> IF "screenshotOnFailure" \in partial.has
                             THEN partial.val.screenshotOnFailure ELSE TRUE]

(***************************************************************************)
(* Values                                                                  *)
(***************************************************************************)
NoStrategy == [primary |-> NoSel, fallbacks |-> <<>>, description |-> <<>>, elementType |-> "generic"]
NoCall == [op |-> "none", strategy |-> NoStrategy, value |-> <<>>, timeout |-> 0]

NoErr == [msg |-> "", description |-> <<>>, primary |-> NoSel, value |-> <<>>]
Pending == [kind |-> "pending", loc |-> NoSel, err |-> NoErr]
Locator(sel) == [kind |-> "locator", loc |-> sel, err |-> NoErr]
Null == [kind |-> "null", loc |-> NoSel, err |-> NoErr]
True == [kind |-> "true", loc |-> NoSel, err |-> NoErr]
False == [kind |-> "false", loc |-> NoSel, err |-> NoErr]
\* A string read from the element; the empty string is a string, not a failure.
Text(t) == [kind |-> "text", loc |-> NoSel, err |-> NoErr, text |-> t]
Throw(err) == [kind |-> "throw", loc |-> NoSel, err |-> err]

\* The Error object a rejected surface call raises: every rejection is an object of
\* its own, told apart here by the call and the attempt of retryOperation it ended.
Rejection(failedCall, attempt) == [of |-> failedCall.op, sel |-> failedCall.sel, attempt |-> attempt]

\* let lastError: Error; before any assignment.
Undefined == [of |-> "undefined", sel |-> NoSel, attempt |-> 0]

\* The error a rejected page.screenshot raises.
ScreenshotError == [msg |-> "page.screenshot", description |-> <<>>, primary |-> NoSel, value |-> <<>>]

\* One call on the page automation surface and its outcome.
Ev(op, sel, val, ms, ok) == [op |-> op, sel |-> sel, val |-> val, ms |-> ms, ok |-> ok]

Upd(f, e, v) == [f EXCEPT ![e] = v]

RECURSIVE Pow2(_)
Pow2(n) == IF n <= 0 THEN 1 ELSE 2 * Pow2(n - 1)

\* A plausible slip: the newest entry is put first (unshift instead of push).
logHealing_Unshift(log, originalSelector, healedSelector, description, failed) ==
    <<[status |-> IF failed THEN "FAILED" ELSE "HEALED",
       description |-> description,
       original |-> originalSelector,
       healed |-> healedSelector]>> \o log

\* this.healingLog.push(logEntry); the entry's timestamp is left out.
logHealing(log, originalSelector, healedSelector, description, failed) ==
    Append(log, [status |-> IF failed THEN "FAILED" ELSE "HEALED",
                 description |-> description,
                 original |-> originalSelector,
                 healed |-> healedSelector])

(***************************************************************************)
(* The page wrappers of SelfHealingBasePage turn a failure value into an   *)
(* Error naming the description and the primary selector.                  *)
(***************************************************************************)
WrapperMessage(op) ==
    CASE op = "click" -> "Failed to click element"
      [] op = "fill" -> "Failed to fill element"
      [] op = "getText" -> "Failed to get text from element"
      [] OTHER -> "Failed to find element"

Wrapped(c, r) ==
    IF r.kind \in {"null", "false"}
    THEN Throw([msg |-> WrapperMessage(c.op),
                description |-> c.strategy.description,
                primary |-> c.strategy.primary,
                value |-> c.value])
    ELSE r

\* The report object of exportHealingReport, and the document written from it
\* (the timestamp is left out).
Report(total, log, cfg) == [totalHealingAttempts |-> total, healingLog |-> log, config |-> cfg]
NoReport == [totalHealingAttempts |-> -1, healingLog |-> <<>>, config |-> <<>>]

TestUnchanged == UNCHANGED <<held, exporting, report, document>>

\* Nothing has run yet: empty logs, no operation in progress.
NothingRun ==
    /\ healingLog = [e \in EngineIds |-> <<>>]
    /\ pc = [e \in EngineIds |-> "idle"]
    /\ call = [e \in EngineIds |-> NoCall]
    /\ idx = [e \in EngineIds |-> 0]
    /\ element = [e \in EngineIds |-> NoSel]
    /\ trace = [e \in EngineIds |-> <<>>]
    /\ result = [e \in EngineIds |-> Pending]
    /\ logStart = [e \in EngineIds |-> <<>>]
    /\ held = [e \in EngineIds |-> <<>>]
    /\ exporting = [e \in EngineIds |-> "no"]
    /\ report = [e \in EngineIds |-> NoReport]
    /\ document = [e \in EngineIds |-> NoReport]
    /\ lastError = [e \in EngineIds |-> Undefined]
    /\ error = [e \in EngineIds |-> Undefined]
    /\ visible = {}
    /\ inputValue = <<>>
    /\ selected = FALSE
    /\ inputStart = <<>>

InitWith(partial) ==
    /\ engines = {1}
    /\ config = [e \in EngineIds |-> constructor(partial)]
    /\ supplied = [e \in EngineIds |-> Given(partial)]
    /\ NothingRun

Init == \E partial \in PartialConfigs : InitWith(partial)

Ops == {"findElement", "click", "fill", "getText"}

\* The strategies each operation is called with: any element is looked up,
\* buttons are clicked, inputs are filled, text elements are read.
OpStrategies(op) ==
    CASE op = "click" -> {s \in Strategies : s.elementType = "button"}
      [] op = "fill" -> {s \in Strategies : s.elementType = "input"}
      [] op = "getText" -> {s \in Strategies : s.elementType = "text"}
      [] OTHER -> Strategies

\* A test calls an operation of the engine against the page as it is at that moment.
BeginWith(e, op, s, v, vis, iv, timeout) ==
    /\ call' = Upd(call, e, [op |-> op, strategy |-> s, value |-> v, timeout |-> timeout])
    /\ pc' = Upd(pc, e, "primary")
    /\ idx' = Upd(idx, e, 0)
    /\ element' = Upd(element, e, NoSel)
    /\ trace' = Upd(trace, e, <<>>)
    /\ result' = Upd(result, e, Pending)
    /\ logStart' = Upd(logStart, e, healingLog[e])
    /\ lastError' = Upd(lastError, e, Undefined)
    /\ error' = Upd(error, e, Undefined)
    /\ visible' = vis
    /\ inputValue' = iv
    /\ inputStart' = iv
    /\ selected' = FALSE
    /\ held' = Upd(held, e, <<>>)
    /\ UNCHANGED <<engines, config, supplied, healingLog, exporting, report, document>>

\* An operation of the engine itself takes no timeout.
Begin(e, op, s, v, vis, iv) == BeginWith(e, op, s, v, vis, iv, 0)

Call(e) ==
    /\ e \in engines
    /\ pc[e] = "idle"
    /\ exporting[e] = "no"
    /\ Len(healingLog[e]) < MaxLog
    /\ \E op \in Ops :
         \E s \in OpStrategies(op) :
           \E vis \in PageStates(s) :
             \E v \in (IF op = "fill" THEN Values ELSE {<<>>}),
                iv \in (IF op = "fill" THEN InitialValues ELSE {<<>>}) :
                  Begin(e, op, s, v, vis, iv)

Return(e, r) ==
    /\ pc' = Upd(pc, e, "done")
    /\ result' = Upd(result, e, r)
    /\ UNCHANGED <<idx, element, lastError, error>>

Goto(e, p, i) ==
    /\ pc' = Upd(pc, e, p)
    /\ idx' = Upd(idx, e, i)
    /\ UNCHANGED <<result, element, lastError, error>>

\* retryOperation is entered: its loop runs only if 1 <= maxRetries,
\* otherwise it throws lastError, still undefined, at once and the caller's
\* catch block escalates.
EnterRetry(e, loc, first, escalation) ==
    /\ element' = Upd(element, e, loc)
    /\ result' = result
    /\ lastError' = Upd(lastError, e, Undefined)
    /\ IF 1 <= config[e].maxRetries
       THEN pc' = Upd(pc, e, first) /\ idx' = Upd(idx, e, 1) /\ UNCHANGED error
       ELSE /\ pc' = Upd(pc, e, escalation) /\ idx' = Upd(idx, e, 0)
            /\ error' = Upd(error, e, lastError'[e])

\* findElement is over with outcome r; its caller goes on.  healingWaitForElement
\* returns the element of a poll that found one and swallows a poll's null or
\* exception (if (element) return element; catch: continue trying).
FindDone(e, r) ==
    LET op == call[e].op IN
    CASE op = "waitForElement" ->
           IF r.kind = "locator" THEN Return(e, r) ELSE Goto(e, "poll.sleep", 0)
      [] r.kind = "throw" -> Return(e, r)
      [] r.kind = "null" -> Return(e, IF op \in {"click", "fill"} THEN False ELSE Null)
      [] OTHER ->
           CASE op = "click" -> EnterRetry(e, r.loc, "click.standard", "click.force")
             [] op = "fill" -> EnterRetry(e, r.loc, "fill.clear", "fill.click")
             [] op = "getText" ->
                  /\ element' = Upd(element, e, r.loc)
                  /\ pc' = Upd(pc, e, "getText.textContent")
                  /\ UNCHANGED <<result, idx, lastError, error>>
             [] OTHER -> Return(e, r)

PageUnchanged == UNCHANGED <<visible, inputValue, selected, inputStart>>

\* A plausible slip: when every candidate failed the resolution starts over
\* with the primary instead of giving up.
AllFailed_StartsOver(e) ==
    /\ Goto(e, "primary", 0)
    /\ UNCHANGED healingLog

\* A plausible slip: the FAILED entry is written only when logging is enabled.
AllFailed_OnlyWhenLogging(e) ==
    IF config[e].screenshotOnFailure
    THEN /\ Goto(e, "screenshot", 0)
         /\ UNCHANGED healingLog
    ELSE /\ healingLog' = Upd(healingLog, e,
               IF config[e].enableLogging
               THEN logHealing(healingLog[e], call[e].strategy.primary, Sel("FAILED"),
                               call[e].strategy.description, TRUE)
               ELSE healingLog[e])
         /\ FindDone(e, Null)

\* Every candidate failed: screenshot first if configured, else log FAILED and return null.
AllFailed(e) ==
    IF config[e].screenshotOnFailure
    THEN /\ Goto(e, "screenshot", 0)
         /\ UNCHANGED healingLog
    ELSE /\ healingLog' = Upd(healingLog, e,
               logHealing(healingLog[e], call[e].strategy.primary, Sel("FAILED"),
                          call[e].strategy.description, TRUE))
         /\ FindDone(e, Null)

\* The heuristic phase starts (intelligentFallback -> tryStrategies).
EnterHeuristics(e) ==
    IF Len(intelligentFallback(call[e].strategy.elementType, call[e].strategy.description)) > 0
    THEN Goto(e, "heuristic", 1) /\ UNCHANGED healingLog
    ELSE AllFailed(e)

\* A plausible slip: the primary's success is logged as a healing.
WaitPrimary_Logs(e) ==
    /\ pc[e] = "primary"
    /\ LET s == call[e].strategy
           ok == s.primary \in visible
       IN /\ trace' = Upd(trace, e, Append(trace[e], Ev("waitFor", s.primary, <<>>, PrimaryTimeout, ok)))
          /\ IF ok
             THEN /\ FindDone(e, Locator(s.primary))
                  /\ healingLog' = Upd(healingLog, e,
                        logHealing(healingLog[e], s.primary, s.primary, s.description, FALSE))
             ELSE IF Len(s.fallbacks) > 0
                  THEN Goto(e, "fallback", 1) /\ UNCHANGED healingLog
                  ELSE EnterHeuristics(e)
    /\ UNCHANGED <<engines, config, supplied, call, logStart>>
    /\ TestUnchanged
    /\ PageUnchanged

\* A plausible slip: the primary and the first fallback are awaited together
\* (Promise.race) instead of one after the other.
WaitPrimary_Raced(e) ==
    /\ pc[e] = "primary"
    /\ LET s == call[e].strategy
           ok == s.primary \in visible
           raced == IF Len(s.fallbacks) > 0
                    THEN <<Ev("waitFor", s.fallbacks[1], <<>>, FallbackTimeout, s.fallbacks[1] \in visible)>>
                    ELSE <<>>
       IN /\ trace' = Upd(trace, e,
                Append(trace[e], Ev("waitFor", s.primary, <<>>, PrimaryTimeout, ok)) \o raced)
          /\ IF ok
             THEN FindDone(e, Locator(s.primary)) /\ UNCHANGED healingLog
             ELSE IF Len(s.fallbacks) > 0
                  THEN Goto(e, "fallback", 1) /\ UNCHANGED healingLog
                  ELSE EnterHeuristics(e)
    /\ UNCHANGED <<engines, config, supplied, call, logStart>>
    /\ TestUnchanged
    /\ PageUnchanged

\* findElement, primary selector.
WaitPrimary(e) ==
    /\ pc[e] = "primary"
    /\ LET s == call[e].strategy
           ok == s.primary \in visible
       IN /\ trace' = Upd(trace, e, Append(trace[e], Ev("waitFor", s.primary, <<>>, PrimaryTimeout, ok)))
          /\ IF ok
             THEN FindDone(e, Locator(s.primary)) /\ UNCHANGED healingLog
             ELSE IF Len(s.fallbacks) > 0
                  THEN Goto(e, "fallback", 1) /\ UNCHANGED healingLog
                  ELSE EnterHeuristics(e)
    /\ UNCHANGED <<engines, config, supplied, call, logStart>>
    /\ TestUnchanged
    /\ PageUnchanged

\* A plausible slip: the loop bound is off by one and the last fallback is never tried.
MoreFallbacks_OffByOne(i, fallbacks) == i + 1 < Len(fallbacks)

\* for (let i = 0; i < fallbacks.length; i++): after pass number i, another pass follows.
MoreFallbacks(i, fallbacks) == i < Len(fallbacks)

\* A plausible slip: a fallback that fails is logged as well.
WaitFallback_LogsEachFailure(e) ==
    /\ pc[e] = "fallback"
    /\ LET s == call[e].strategy
           fallbackSelector == s.fallbacks[idx[e]]
           ok == fallbackSelector \in visible
       IN /\ trace' = Upd(trace, e, Append(trace[e], Ev("waitFor", fallbackSelector, <<>>, FallbackTimeout, ok)))
          /\ IF ok
             THEN /\ healingLog' = Upd(healingLog, e,
                        logHealing(healingLog[e], s.primary, fallbackSelector, s.description, FALSE))
                  /\ FindDone(e, Locator(fallbackSelector))
             ELSE IF MoreFallbacks(idx[e], s.fallbacks)
                  THEN /\ Goto(e, "fallback", idx[e] + 1)
                       /\ healingLog' = Upd(healingLog, e,
                             logHealing(healingLog[e], s.primary, fallbackSelector, s.description, TRUE))
                  ELSE EnterHeuristics(e)
    /\ UNCHANGED <<engines, config, supplied, call, logStart>>
    /\ TestUnchanged
    /\ PageUnchanged

\* findElement, one pass of the fallback loop (idx is i + 1).
WaitFallback(e) ==
    /\ pc[e] = "fallback"
    /\ LET s == call[e].strategy
           fallbackSelector == s.fallbacks[idx[e]]
           ok == fallbackSelector \in visible
       IN /\ trace' = Upd(trace, e, Append(trace[e], Ev("waitFor", fallbackSelector, <<>>, FallbackTimeout, ok)))
          /\ IF ok
             THEN /\ healingLog' = Upd(healingLog, e,
                        logHealing(healingLog[e], s.primary, fallbackSelector, s.description, FALSE))
                  /\ FindDone(e, Locator(fallbackSelector))
             ELSE IF MoreFallbacks(idx[e], s.fallbacks)
                  THEN Goto(e, "fallback", idx[e] + 1) /\ UNCHANGED healingLog
                  ELSE EnterHeuristics(e)
    /\ UNCHANGED <<engines, config, supplied, call, logStart>>
    /\ TestUnchanged
    /\ PageUnchanged

\* tryStrategies, one pass of its loop, and what findElement does with its result.
WaitHeuristic(e) ==
    /\ pc[e] = "heuristic"
    /\ LET s == call[e].strategy
           strategies == intelligentFallback(s.elementType, s.description)
           strategy == strategies[idx[e]]
           ok == strategy \in visible
       IN /\ trace' = Upd(trace, e, Append(trace[e], Ev("waitFor", strategy, <<>>, HeuristicTimeout, ok)))
          /\ IF ok
             THEN /\ healingLog' = Upd(healingLog, e,
                        logHealing(healingLog[e], s.primary, Sel("intelligent-fallback"), s.description, FALSE))
                  /\ FindDone(e, Locator(strategy))
             ELSE IF idx[e] < Len(strategies)
                  THEN Goto(e, "heuristic", idx[e] + 1) /\ UNCHANGED healingLog
                  ELSE AllFailed(e)
    /\ UNCHANGED <<engines, config, supplied, call, logStart>>
    /\ TestUnchanged
    /\ PageUnchanged

\* findElement, the failure screenshot: a rejected page.screenshot leaves findElement.
Screenshot(e) ==
    /\ pc[e] = "screenshot"
    /\ \E ok \in BOOLEAN :
          /\ trace' = Upd(trace, e, Append(trace[e], Ev("screenshot", NoSel, <<>>, 0, ok)))
          /\ IF ok
             THEN /\ healingLog' = Upd(healingLog, e,
                        logHealing(healingLog[e], call[e].strategy.primary, Sel("FAILED"),
                                   call[e].strategy.description, TRUE))
                  /\ FindDone(e, Null)
             ELSE /\ UNCHANGED healingLog
                  /\ FindDone(e, Throw(ScreenshotError))
    /\ UNCHANGED <<engines, config, supplied, call, logStart>>
    /\ TestUnchanged
    /\ PageUnchanged

\* A plausible slip: the exponent is the attempt number, not one less.
Backoff_Doubled(retryDelay, attempt) == retryDelay * Pow2(attempt)

\* const delay = this.config.retryDelay * Math.pow(2, attempt - 1)
Backoff(retryDelay, attempt) == retryDelay * Pow2(attempt - 1)

\* A plausible slip: only the first error is remembered (lastError ??= error).
RetryFailed_KeepsFirst(e, failedCall, first, escalation) ==
    LET attempt == idx[e]
        delay == Backoff(config[e].retryDelay, attempt)
    IN /\ lastError' = Upd(lastError, e, IF attempt = 1 THEN Rejection(failedCall, attempt)
                                                         ELSE lastError[e])
       /\ UNCHANGED <<result, element>>
       /\ IF attempt = config[e].maxRetries
          THEN /\ trace' = Upd(trace, e, Append(trace[e], failedCall))
               /\ error' = Upd(error, e, lastError'[e])
               /\ pc' = Upd(pc, e, escalation) /\ idx' = Upd(idx, e, 0)
          ELSE /\ trace' = Upd(trace, e, trace[e] \o <<failedCall, Ev("waitForTimeout", NoSel, <<>>, delay, TRUE)>>)
               /\ UNCHANGED error
               /\ pc' = Upd(pc, e, first) /\ idx' = Upd(idx, e, attempt + 1)

(***************************************************************************)
(* retryOperation: attempt idx[e] of the wrapped operation has failed.     *)
(* The last attempt rethrows (the caller escalates); an earlier one waits  *)
(* retryDelay * 2^(attempt-1) and runs the operation again.                *)
(***************************************************************************)
RetryFailed(e, failedCall, first, escalation) ==
    LET attempt == idx[e]
        delay == Backoff(config[e].retryDelay, attempt)
    IN /\ lastError' = Upd(lastError, e, Rejection(failedCall, attempt))
       /\ UNCHANGED <<result, element>>
       /\ IF attempt = config[e].maxRetries
          THEN /\ trace' = Upd(trace, e, Append(trace[e], failedCall))
               /\ error' = Upd(error, e, lastError'[e])
               /\ pc' = Upd(pc, e, escalation) /\ idx' = Upd(idx, e, 0)
          ELSE /\ trace' = Upd(trace, e, trace[e] \o <<failedCall, Ev("waitForTimeout", NoSel, <<>>, delay, TRUE)>>)
               /\ UNCHANGED error
               /\ pc' = Upd(pc, e, first) /\ idx' = Upd(idx, e, attempt + 1)

\* A plausible slip: the entry names the selector that resolved, not the primary.
Escalated_Resolved(e, healedSelector) ==
    healingLog' = Upd(healingLog, e,
        logHealing(healingLog[e], element[e], Sel(healedSelector),
                   call[e].strategy.description, FALSE))

\* logHealing(strategy.primary, <tactic>, strategy.description) after a tactic that worked.
Escalated(e, healedSelector) ==
    healingLog' = Upd(healingLog, e,
        logHealing(healingLog[e], call[e].strategy.primary, Sel(healedSelector),
                   call[e].strategy.description, FALSE))

\* click: element.click() inside retryOperation.
ClickStandard(e) ==
    /\ pc[e] = "click.standard"
    /\ \E ok \in BOOLEAN :
          IF ok
          THEN /\ trace' = Upd(trace, e, Append(trace[e], Ev("click", element[e], <<>>, 0, TRUE)))
               /\ Return(e, True)
          ELSE RetryFailed(e, Ev("click", element[e], <<>>, 0, FALSE), "click.standard", "click.force")
    /\ UNCHANGED <<engines, config, supplied, call, logStart, healingLog>>
    /\ TestUnchanged
    /\ PageUnchanged

\* A plausible slip: a rejected forced click gives up, the script click is never tried.
ClickForce_GivesUp(e) ==
    /\ pc[e] = "click.force"
    /\ \E ok \in BOOLEAN :
          /\ trace' = Upd(trace, e, Append(trace[e], Ev("click.force", element[e], <<>>, 0, ok)))
          /\ IF ok
             THEN Escalated(e, "force-click") /\ Return(e, True)
             ELSE UNCHANGED healingLog /\ Return(e, False)
    /\ UNCHANGED <<engines, config, supplied, call, logStart>>
    /\ TestUnchanged
    /\ PageUnchanged

\* click: element.click({ force: true }).
ClickForce(e) ==
    /\ pc[e] = "click.force"
    /\ \E ok \in BOOLEAN :
          /\ trace' = Upd(trace, e, Append(trace[e], Ev("click.force", element[e], <<>>, 0, ok)))
          /\ IF ok
             THEN Escalated(e, "force-click") /\ Return(e, True)
             ELSE UNCHANGED healingLog /\ Goto(e, "click.js", 0)
    /\ UNCHANGED <<engines, config, supplied, call, logStart>>
    /\ TestUnchanged
    /\ PageUnchanged

\* A plausible slip: the script click that works is not logged.
ClickJs_Silent(e) ==
    /\ pc[e] = "click.js"
    /\ \E ok \in BOOLEAN :
          /\ trace' = Upd(trace, e, Append(trace[e], Ev("evaluate.click", element[e], <<>>, 0, ok)))
          /\ IF ok
             THEN UNCHANGED healingLog /\ Return(e, True)
             ELSE UNCHANGED healingLog /\ Return(e, False)
    /\ UNCHANGED <<engines, config, supplied, call, logStart>>
    /\ TestUnchanged
    /\ PageUnchanged

\* click: element.evaluate(el => el.click()).
ClickJs(e) ==
    /\ pc[e] = "click.js"
    /\ \E ok \in BOOLEAN :
          /\ trace' = Upd(trace, e, Append(trace[e], Ev("evaluate.click", element[e], <<>>, 0, ok)))
          /\ IF ok
             THEN Escalated(e, "js-click") /\ Return(e, True)
             ELSE UNCHANGED healingLog /\ Return(e, False)
    /\ UNCHANGED <<engines, config, supplied, call, logStart>>
    /\ TestUnchanged
    /\ PageUnchanged

\* fill: element.clear() inside retryOperation; a clear that succeeds empties the input.
FillClear(e) ==
    /\ pc[e] = "fill.clear"
    /\ \E ok \in BOOLEAN :
          IF ok
          THEN /\ trace' = Upd(trace, e, Append(trace[e], Ev("clear", element[e], <<>>, 0, TRUE)))
               /\ inputValue' = <<>>
               /\ Goto(e, "fill.fill", idx[e])
          ELSE /\ RetryFailed(e, Ev("clear", element[e], <<>>, 0, FALSE), "fill.clear", "fill.click")
               /\ UNCHANGED inputValue
    /\ UNCHANGED <<engines, config, supplied, call, logStart, healingLog>>
    /\ TestUnchanged
    /\ UNCHANGED <<visible, selected, inputStart>>

\* fill: element.fill(value) inside retryOperation.
FillFill(e) ==
    /\ pc[e] = "fill.fill"
    /\ \E ok \in BOOLEAN :
          IF ok
          THEN /\ trace' = Upd(trace, e, Append(trace[e], Ev("fill", element[e], call[e].value, 0, TRUE)))
               /\ inputValue' = call[e].value
               /\ Return(e, True)
          ELSE /\ RetryFailed(e, Ev("fill", element[e], call[e].value, 0, FALSE), "fill.clear", "fill.click")
               /\ UNCHANGED inputValue
    /\ UNCHANGED <<engines, config, supplied, call, logStart, healingLog>>
    /\ TestUnchanged
    /\ UNCHANGED <<visible, selected, inputStart>>

\* fill, keyboard tactic: element.click() focuses the input.
FillKeyboardClick(e) ==
    /\ pc[e] = "fill.click"
    /\ \E ok \in BOOLEAN :
          /\ trace' = Upd(trace, e, Append(trace[e], Ev("click", element[e], <<>>, 0, ok)))
          /\ IF ok THEN Goto(e, "fill.press", 0) ELSE Goto(e, "fill.js", 0)
    /\ selected' = FALSE
    /\ UNCHANGED <<engines, config, supplied, call, logStart, healingLog>>
    /\ TestUnchanged
    /\ UNCHANGED <<visible, inputValue, inputStart>>

\* What the chord Control+a does to a focused input: select-all, except on
\* macOS, where it moves the caret to the start of the line.  The suite runs
\* on every platform of the CI matrix and the engine never asks which.
ControlA(os) == os # "darwin"

\* fill, keyboard tactic: page.keyboard.press('Control+a').
FillKeyboardPress(e) ==
    /\ pc[e] = "fill.press"
    /\ \E ok \in BOOLEAN :
          /\ trace' = Upd(trace, e, Append(trace[e], Ev("keyboard.press", Sel("Control+a"), <<>>, 0, ok)))
          /\ IF ok
             THEN (\E os \in Platforms : selected' = ControlA(os)) /\ Goto(e, "fill.type", 0)
             ELSE UNCHANGED selected /\ Goto(e, "fill.js", 0)
    /\ UNCHANGED <<engines, config, supplied, call, logStart, healingLog>>
    /\ TestUnchanged
    /\ UNCHANGED <<visible, inputValue, inputStart>>

\* Typing text into the input: it replaces the selection, or is inserted
\* at the caret (the start of the line) when nothing is selected.
Typed(text, sel, old) == IF sel THEN text ELSE text \o old

\* fill, keyboard tactic: page.keyboard.type(value); a type that fails has
\* typed some proper prefix of the value.
FillKeyboardType(e) ==
    /\ pc[e] = "fill.type"
    /\ LET value == call[e].value IN
       \E ok \in BOOLEAN :
          /\ trace' = Upd(trace, e, Append(trace[e], Ev("keyboard.type", NoSel, value, 0, ok)))
          /\ IF ok
             THEN /\ inputValue' = Typed(value, selected, inputValue)
                  /\ Escalated(e, "keyboard-fill")
                  /\ Return(e, True)
             ELSE /\ \E k \in 0..(Len(value) - 1) :
                        inputValue' = IF k = 0 THEN inputValue
                                      ELSE Typed(SubSeq(value, 1, k), selected, inputValue)
                  /\ UNCHANGED healingLog
                  /\ Goto(e, "fill.js", 0)
    /\ selected' = FALSE
    /\ UNCHANGED <<engines, config, supplied, call, logStart>>
    /\ TestUnchanged
    /\ UNCHANGED <<visible, inputStart>>

\* fill: element.evaluate assigning el.value and dispatching input and change.
FillJs(e) ==
    /\ pc[e] = "fill.js"
    /\ \E ok \in BOOLEAN :
          /\ trace' = Upd(trace, e, Append(trace[e], Ev("evaluate.value", element[e], call[e].value, 0, ok)))
          /\ IF ok
             THEN /\ inputValue' = call[e].value
                  /\ Escalated(e, "js-fill")
                  /\ Return(e, True)
             ELSE /\ UNCHANGED <<inputValue, healingLog>>
                  /\ Return(e, False)
    /\ UNCHANGED <<engines, config, supplied, call, logStart>>
    /\ TestUnchanged
    /\ UNCHANGED <<visible, selected, inputStart>>

\* getText: element.textContent().
GetTextContent(e) ==
    /\ pc[e] = "getText.textContent"
    /\ \E ok \in BOOLEAN :
          /\ trace' = Upd(trace, e, Append(trace[e], Ev("textContent", element[e], <<>>, 0, ok)))
          /\ IF ok THEN \E t \in Texts : Return(e, Text(t))
             ELSE Goto(e, "getText.innerText", 0)
    /\ UNCHANGED <<engines, config, supplied, call, logStart, healingLog>>
    /\ TestUnchanged
    /\ PageUnchanged

\* A plausible slip: a rejected innerText gives up, the script read is never tried.
GetInnerText_GivesUp(e) ==
    /\ pc[e] = "getText.innerText"
    /\ \E ok \in BOOLEAN :
          /\ trace' = Upd(trace, e, Append(trace[e], Ev("innerText", element[e], <<>>, 0, ok)))
          /\ IF ok THEN \E t \in Texts : Return(e, Text(t))
             ELSE Return(e, Null)
    /\ UNCHANGED <<engines, config, supplied, call, logStart, healingLog>>
    /\ TestUnchanged
    /\ PageUnchanged

\* getText: element.innerText().
GetInnerText(e) ==
    /\ pc[e] = "getText.innerText"
    /\ \E ok \in BOOLEAN :
          /\ trace' = Upd(trace, e, Append(trace[e], Ev("innerText", element[e], <<>>, 0, ok)))
          /\ IF ok THEN \E t \in Texts : Return(e, Text(t))
             ELSE Goto(e, "getText.evaluate", 0)
    /\ UNCHANGED <<engines, config, supplied, call, logStart, healingLog>>
    /\ TestUnchanged
    /\ PageUnchanged

\* getText: element.evaluate(el => el.textContent).
GetEvaluateText(e) ==
    /\ pc[e] = "getText.evaluate"
    /\ \E ok \in BOOLEAN :
          /\ trace' = Upd(trace, e, Append(trace[e], Ev("evaluate.textContent", element[e], <<>>, 0, ok)))
          /\ IF ok THEN \E t \in Texts : Return(e, Text(t))
             ELSE Return(e, Null)
    /\ UNCHANGED <<engines, config, supplied, call, logStart, healingLog>>
    /\ TestUnchanged
    /\ PageUnchanged

\* healingFindElement, healingClick, healingFill, healingGetText: the operation
\* was called through the page object, which awaits the engine's operation and
\* then throws on a failure value.
healingWrapper(e) ==
    /\ pc[e] = "done"
    /\ exporting[e] = "no"
    /\ pc' = Upd(pc, e, "wrapped")
    /\ result' = Upd(result, e, Wrapped(call[e], result[e]))
    /\ UNCHANGED <<engines, config, supplied, healingLog, call, idx, element, trace, logStart>>
    /\ TestUnchanged
    /\ UNCHANGED <<lastError, error>>
    /\ PageUnchanged

\* The calling test takes the outcome of an operation or of an export and goes
\* on.  The engine does not observe the page between two operations: it is
\* blanked here and the next Call chooses the page that operation runs against.
Resume(e) ==
    /\ \/ pc[e] \in {"done", "wrapped"} /\ exporting[e] # "write"
       \/ pc[e] = "idle" /\ exporting[e] \in {"written", "threw"}
    /\ pc' = Upd(pc, e, "idle")
    /\ call' = Upd(call, e, NoCall)
    /\ idx' = Upd(idx, e, 0)
    /\ element' = Upd(element, e, NoSel)
    /\ trace' = Upd(trace, e, <<>>)
    /\ result' = Upd(result, e, Pending)
    /\ logStart' = Upd(logStart, e, healingLog[e])
    /\ lastError' = Upd(lastError, e, Undefined)
    /\ error' = Upd(error, e, Undefined)
    /\ visible' = {}
    /\ inputValue' = <<>>
    /\ inputStart' = <<>>
    /\ selected' = FALSE
    /\ held' = Upd(held, e, <<>>)
    /\ exporting' = Upd(exporting, e, "no")
    /\ report' = Upd(report, e, NoReport)
    /\ document' = Upd(document, e, NoReport)
    /\ UNCHANGED <<engines, config, supplied, healingLog>>

\* clearLog, called between operations: this.healingLog = [].
clearLog(e) ==
    /\ e \in engines
    /\ pc[e] = "idle"
    /\ exporting[e] = "no"
    /\ healingLog[e] # <<>>
    /\ healingLog' = Upd(healingLog, e, <<>>)
    /\ logStart' = Upd(logStart, e, <<>>)
    /\ held' = Upd(held, e, <<>>)
    /\ UNCHANGED <<engines, config, supplied, pc, call, idx, element, trace, result>>
    /\ UNCHANGED <<exporting, report, document>>
    /\ UNCHANGED <<lastError, error>>
    /\ PageUnchanged

(***************************************************************************)
(* Reading the log.  `held` is the arrays the last two calls of            *)
(* getHealingLog returned to the test, if it has called nothing else       *)
(* since; an array is a JavaScript object, so writing to one that is the   *)
(* engine's own would write the log.                                       *)
(***************************************************************************)
Modified(a) == a.items # a.returned

\* A plausible slip: the engine's own array is handed out (return this.healingLog).
Copy_SameArray(log, after) == [items |-> log, returned |-> log, own |-> TRUE, after |-> after]

\* [...this.healingLog]: a new array with the log's entries; `after` records
\* whether the test had modified an earlier array by then.
Copy(log, after) == [items |-> log, returned |-> log, own |-> FALSE, after |-> after]

\* getHealingLog, called between operations.
getHealingLog(e) ==
    /\ e \in engines
    /\ pc[e] = "idle"
    /\ exporting[e] = "no"
    /\ LET array == Copy(healingLog[e], \E i \in 1..Len(held[e]) : Modified(held[e][i]))
       IN held' = Upd(held, e, IF Len(held[e]) < 2 THEN Append(held[e], array)
                                                   ELSE <<held[e][2], array>>)
    /\ UNCHANGED <<engines, config, supplied, healingLog, pc, call, idx, element, trace, result, logStart>>
    /\ UNCHANGED <<exporting, report, document>>
    /\ UNCHANGED <<lastError, error>>
    /\ PageUnchanged

Junk == [status |-> "JUNK", description |-> <<>>, original |-> NoSel, healed |-> NoSel]

\* The test writes to an array it was given: it pushes onto it or empties it.
Tamper(e) ==
    /\ e \in engines
    /\ \E i \in 1..Len(held[e]) :
         /\ ~Modified(held[e][i])
         /\ \E items \in {Append(held[e][i].items, Junk), <<>>} :
              /\ items # held[e][i].items
              /\ held' = Upd(held, e, [held[e] EXCEPT ![i].items = items])
              /\ healingLog' = IF held[e][i].own THEN Upd(healingLog, e, items) ELSE healingLog
    /\ UNCHANGED <<engines, config, supplied, pc, call, idx, element, trace, result, logStart>>
    /\ UNCHANGED <<exporting, report, document>>
    /\ UNCHANGED <<lastError, error>>
    /\ PageUnchanged

(***************************************************************************)
(* exportHealingReport, called between operations or right after a         *)
(* findElement.  The report object refers to the engine's log and config,  *)
(* which are read when it is serialised, after the import of fs/promises.  *)
(***************************************************************************)
ExportBegin(e) ==
    /\ e \in engines
    /\ \/ pc[e] = "idle"
       \/ pc[e] = "done" /\ call[e].op = "findElement"
    /\ exporting[e] = "no"
    /\ report' = Upd(report, e, Report(Len(healingLog[e]), healingLog[e], config[e]))
    /\ exporting' = Upd(exporting, e, "write")
    /\ held' = Upd(held, e, <<>>)
    /\ UNCHANGED <<engines, config, supplied, healingLog, pc, call, idx, element, trace, result, logStart>>
    /\ UNCHANGED document
    /\ UNCHANGED <<lastError, error>>
    /\ PageUnchanged

\* JSON.stringify(report, null, 2) and fs.writeFile, which is awaited outside
\* any try block: a rejected write leaves exportHealingReport as an exception.
ExportWrite(e) ==
    /\ exporting[e] = "write"
    /\ \E ok \in BOOLEAN :
          IF ok
          THEN /\ document' = Upd(document, e,
                     Report(report[e].totalHealingAttempts, healingLog[e], config[e]))
               /\ exporting' = Upd(exporting, e, "written")
          ELSE /\ UNCHANGED document
               /\ exporting' = Upd(exporting, e, "threw")
    /\ UNCHANGED <<engines, config, supplied, healingLog, pc, call, idx, element, trace, result, logStart>>
    /\ UNCHANGED <<held, report>>
    /\ UNCHANGED <<lastError, error>>
    /\ PageUnchanged

Next ==
    \/ \E e \in EngineIds : Call(e)
    \/ \E e \in EngineIds : WaitPrimary(e)
    \/ \E e \in EngineIds : WaitFallback(e)
    \/ \E e \in EngineIds : WaitHeuristic(e)
    \/ \E e \in EngineIds : Screenshot(e)
    \/ \E e \in EngineIds : ClickStandard(e)
    \/ \E e \in EngineIds : ClickForce(e)
    \/ \E e \in EngineIds : ClickJs(e)
    \/ \E e \in EngineIds : FillClear(e)
    \/ \E e \in EngineIds : FillFill(e)
    \/ \E e \in EngineIds : FillKeyboardClick(e)
    \/ \E e \in EngineIds : FillKeyboardPress(e)
    \/ \E e \in EngineIds : FillKeyboardType(e)
    \/ \E e \in EngineIds : FillJs(e)
    \/ \E e \in EngineIds : GetTextContent(e)
    \/ \E e \in EngineIds : GetInnerText(e)
    \/ \E e \in EngineIds : GetEvaluateText(e)
    \/ \E e \in EngineIds : healingWrapper(e)
    \/ \E e \in EngineIds : Resume(e)
    \/ \E e \in EngineIds : clearLog(e)
    \/ \E e \in EngineIds : getHealingLog(e)
    \/ \E e \in EngineIds : Tamper(e)
    \/ \E e \in EngineIds : ExportBegin(e)
    \/ \E e \in EngineIds : ExportWrite(e)

Spec == Init /\ [][Next]_vars

(***************************************************************************)
(* Two engines on one page, as in the suite's beforeEach: the page object  *)
(* builds the first with its explicit config, the test builds the second.  *)
(* Their operations interleave step by step; the page they share is the    *)
(* one the operation that started last was called against.                 *)
(***************************************************************************)
\* The config SelfHealingBasePage passes to the constructor.
BasePageConfig ==
    [has |-> ConfigFields,
     val |-> [maxRetries |-> 3, retryDelay |-> 1000,
              enableLogging |-> TRUE, screenshotOnFailure |-> TRUE]]

InitTwo == InitWith(BasePageConfig)

\* A plausible slip: the config is one object shared by all instances.
NewEngine_SharedConfig(e) ==
    /\ e \notin engines
    /\ \E partial \in PartialConfigs :
          /\ config' = [x \in EngineIds |-> constructor(partial)]
          /\ supplied' = [x \in EngineIds |-> Given(partial)]
    /\ engines' = engines \cup {e}
    /\ healingLog' = Upd(healingLog, e, <<>>)
    /\ UNCHANGED <<pc, call, idx, element, trace, result, logStart>>
    /\ TestUnchanged
    /\ UNCHANGED <<lastError, error>>
    /\ PageUnchanged

\* new SelfHealingUtils(page, config?): an instance with a log and a config of its own.
NewEngine(e) ==
    /\ e \notin engines
    /\ \E partial \in PartialConfigs :
          /\ config' = Upd(config, e, constructor(partial))
          /\ supplied' = Upd(supplied, e, Given(partial))
    /\ engines' = engines \cup {e}
    /\ healingLog' = Upd(healingLog, e, <<>>)
    /\ UNCHANGED <<pc, call, idx, element, trace, result, logStart>>
    /\ TestUnchanged
    /\ UNCHANGED <<lastError, error>>
    /\ PageUnchanged

\* Either engine is asked to find the error message.
CallTwo(e) ==
    /\ e \in engines
    /\ pc[e] = "idle"
    /\ Len(healingLog[e]) < MaxLog
    /\ \E vis \in PageStates(Cut(ERROR_MESSAGE)) :
          Begin(e, "findElement", Cut(ERROR_MESSAGE), <<>>, vis, <<>>)

NextTwo ==
    \/ \E e \in EngineIds : NewEngine(e)
    \/ \E e \in EngineIds : CallTwo(e)
    \/ \E e \in EngineIds : WaitPrimary(e)
    \/ \E e \in EngineIds : WaitHeuristic(e)
    \/ \E e \in EngineIds : Screenshot(e)
    \/ \E e \in EngineIds : Resume(e)
    \/ \E e \in EngineIds : clearLog(e)

SpecTwo == InitTwo /\ [][NextTwo]_vars

(***************************************************************************)
(* The engine's operations under the scheduling of the event loop: every   *)
(* surface call the engine awaits settles, a wait within the timeout it is *)
(* given and a tactic within the action timeout of the test run, so an     *)
(* operation that can take a step eventually takes one.  One operation of  *)
(* a new engine is followed from its call to its end.                      *)
(***************************************************************************)
EngineStep(e) ==
    \/ WaitPrimary(e) \/ WaitFallback(e) \/ WaitHeuristic(e) \/ Screenshot(e)
    \/ ClickStandard(e) \/ ClickForce(e) \/ ClickJs(e)
    \/ FillClear(e) \/ FillFill(e)
    \/ FillKeyboardClick(e) \/ FillKeyboardPress(e) \/ FillKeyboardType(e) \/ FillJs(e)
    \/ GetTextContent(e) \/ GetInnerText(e) \/ GetEvaluateText(e)

NextLive ==
    \/ \E e \in EngineIds : Call(e)
    \/ \E e \in EngineIds : WaitPrimary(e)
    \/ \E e \in EngineIds : WaitFallback(e)
    \/ \E e \in EngineIds : WaitHeuristic(e)
    \/ \E e \in EngineIds : Screenshot(e)
    \/ \E e \in EngineIds : ClickStandard(e)
    \/ \E e \in EngineIds : ClickForce(e)
    \/ \E e \in EngineIds : ClickJs(e)
    \/ \E e \in EngineIds : FillClear(e)
    \/ \E e \in EngineIds : FillFill(e)
    \/ \E e \in EngineIds : FillKeyboardClick(e)
    \/ \E e \in EngineIds : FillKeyboardPress(e)
    \/ \E e \in EngineIds : FillKeyboardType(e)
    \/ \E e \in EngineIds : FillJs(e)
    \/ \E e \in EngineIds : GetTextContent(e)
    \/ \E e \in EngineIds : GetInnerText(e)
    \/ \E e \in EngineIds : GetEvaluateText(e)

SpecLive ==
    /\ Init
    /\ [][NextLive]_vars
    /\ \A e \in EngineIds : WF_vars(EngineStep(e))

(***************************************************************************)
(* Engines built with a retry count the constructor does not reject:       *)
(* maxRetries is 0 or negative.  Buttons are clicked and inputs filled.    *)
(***************************************************************************)
UncheckedConfigs ==
    {[has |-> {"maxRetries"},
      val |-> [maxRetries |-> m, retryDelay |-> DefaultRetryDelay,
               enableLogging |-> TRUE, screenshotOnFailure |-> TRUE]] : m \in -1..0}

InitUnchecked == \E partial \in UncheckedConfigs : InitWith(partial)

CallAction(e) ==
    /\ e \in engines
    /\ pc[e] = "idle"
    /\ Len(healingLog[e]) < MaxLog
    /\ \E op \in {"click", "fill"} :
         \E s \in OpStrategies(op) :
           \E vis \in PageStates(s) :
             \E v \in (IF op = "fill" THEN Values ELSE {<<>>}),
                iv \in (IF op = "fill" THEN InitialValues ELSE {<<>>}) :
                  Begin(e, op, s, v, vis, iv)

NextUnchecked ==
    \/ \E e \in EngineIds : CallAction(e)
    \/ \E e \in EngineIds : WaitPrimary(e)
    \/ \E e \in EngineIds : WaitFallback(e)
    \/ \E e \in EngineIds : WaitHeuristic(e)
    \/ \E e \in EngineIds : Screenshot(e)
    \/ \E e \in EngineIds : ClickForce(e)
    \/ \E e \in EngineIds : ClickJs(e)
    \/ \E e \in EngineIds : FillKeyboardClick(e)
    \/ \E e \in EngineIds : FillKeyboardPress(e)
    \/ \E e \in EngineIds : FillKeyboardType(e)
    \/ \E e \in EngineIds : FillJs(e)
    \/ \E e \in EngineIds : Resume(e)

SpecUnchecked == InitUnchecked /\ [][NextUnchecked]_vars

(***************************************************************************)
(* healingWaitForElement of the page object: findElement is polled until   *)
(* it finds the element or the time is up.  A wait that fails has taken    *)
(* its whole timeout, the other surface calls take no time worth counting, *)
(* and the page may change while the loop sleeps.                          *)
(***************************************************************************)
PAGE_TITLE ==
    [primary |-> Sel(".title"),
     fallbacks |-> <<Sel(".header_secondary_container .title"), Sel("h1"),
                     Sel(".page-title"), Sel("[data-test=\"title\"]")>>,
     description |-> <<"i","n","v","e","n","t","o","r","y"," ","p","a","g","e"," ",
                       "t","i","t","l","e">>,
     elementType |-> "text"]

\* timeout: number = 10000, or what the caller passes.
DefaultWaitTimeout == 10000
WaitTimeouts == {DefaultWaitTimeout, 30000}
PollInterval == 1000

\* Date.now() - startTime, from the surface calls the loop has awaited.
RECURSIVE Elapsed(_)
Elapsed(evs) ==
    IF evs = <<>> THEN 0
    ELSE LET ev == evs[Len(evs)] IN
         Elapsed(SubSeq(evs, 1, Len(evs) - 1))
           + (IF ev.op = "waitForTimeout" \/ (ev.op = "waitFor" /\ ~ev.ok) THEN ev.ms ELSE 0)

TimeoutError(s) ==
    [msg |-> "Timeout waiting for element", description |-> s.description,
     primary |-> s.primary, value |-> <<>>]

CallWait(e) ==
    /\ e \in engines
    /\ pc[e] = "idle"
    /\ Len(healingLog[e]) < MaxLog
    /\ \E timeout \in WaitTimeouts :
         \E vis \in PageStates(Cut(PAGE_TITLE)) :
            BeginWith(e, "waitForElement", Cut(PAGE_TITLE), <<>>, vis, <<>>, timeout)

\* await this.page.waitForTimeout(1000), then the loop condition.
PollSleep(e) ==
    /\ pc[e] = "poll.sleep"
    /\ trace' = Upd(trace, e, Append(trace[e], Ev("waitForTimeout", NoSel, <<>>, PollInterval, TRUE)))
    /\ IF Elapsed(trace'[e]) < call[e].timeout
       THEN Goto(e, "primary", 0)
       ELSE Return(e, Throw(TimeoutError(call[e].strategy)))
    /\ visible' \in PageStates(call[e].strategy)
    /\ UNCHANGED <<engines, config, supplied, call, logStart, healingLog>>
    /\ TestUnchanged
    /\ UNCHANGED <<inputValue, selected, inputStart>>

NextWait ==
    \/ \E e \in EngineIds : CallWait(e)
    \/ \E e \in EngineIds : WaitPrimary(e)
    \/ \E e \in EngineIds : WaitFallback(e)
    \/ \E e \in EngineIds : WaitHeuristic(e)
    \/ \E e \in EngineIds : Screenshot(e)
    \/ \E e \in EngineIds : PollSleep(e)
    \/ \E e \in EngineIds : Resume(e)

SpecWait == InitTwo /\ [][NextWait]_vars

(***************************************************************************)
(* Two engines whose configs differ in enableLogging only are given the    *)
(* same operation against the same page: the first runs it to its end,     *)
(* then the second runs it.                                                *)
(***************************************************************************)
WithLogging(partial, flag) ==
    [has |-> partial.has \cup {"enableLogging"},
     val |-> [partial.val EXCEPT !.enableLogging = flag]]

InitPair ==
    /\ engines = EngineIds
    /\ \E partial \in PartialConfigs :
          /\ config = [e \in EngineIds |-> constructor(WithLogging(partial, e = 1))]
          /\ supplied = [e \in EngineIds |-> Given(WithLogging(partial, e = 1))]
    /\ NothingRun

CallBoth ==
    /\ \A e \in EngineIds : pc[e] = "idle" /\ Len(healingLog[e]) < MaxLog
    /\ \E op \in {"findElement", "click"} :
         \E s \in OpStrategies(op) :
           \E vis \in PageStates(s) :
              /\ call' = [e \in EngineIds |->
                             [op |-> op, strategy |-> s, value |-> <<>>, timeout |-> 0]]
              /\ visible' = vis
    /\ pc' = [e \in EngineIds |-> "primary"]
    /\ idx' = [e \in EngineIds |-> 0]
    /\ element' = [e \in EngineIds |-> NoSel]
    /\ trace' = [e \in EngineIds |-> <<>>]
    /\ result' = [e \in EngineIds |-> Pending]
    /\ logStart' = healingLog
    /\ lastError' = [e \in EngineIds |-> Undefined]
    /\ error' = [e \in EngineIds |-> Undefined]
    /\ inputValue' = <<>>
    /\ inputStart' = <<>>
    /\ selected' = FALSE
    /\ UNCHANGED <<engines, config, supplied, healingLog>>
    /\ TestUnchanged

\* The second engine starts when the first is done.
Turn(e) == e = 1 \/ pc[1] = "done"

NextPair ==
    \/ CallBoth
    \/ \E e \in EngineIds : Turn(e) /\ WaitPrimary(e)
    \/ \E e \in EngineIds : Turn(e) /\ WaitFallback(e)
    \/ \E e \in EngineIds : Turn(e) /\ WaitHeuristic(e)
    \/ \E e \in EngineIds : Turn(e) /\ Screenshot(e)
    \/ \E e \in EngineIds : Turn(e) /\ ClickStandard(e)
    \/ \E e \in EngineIds : Turn(e) /\ ClickForce(e)
    \/ \E e \in EngineIds : Turn(e) /\ ClickJs(e)

SpecPair == InitPair /\ [][NextPair]_vars

(***************************************************************************)
(* findElement on strategies a test writes itself, as the suite does for   *)
(* its broken selectors: any element type (the type is not checked at run  *)
(* time, so a value outside the declared ones can arrive) and descriptions *)
(* that differ in letter case only.  The engine may already have logged.   *)
(***************************************************************************)
ElementTypes == {"button", "input", "link", "text", "generic", "image"}

Descriptions ==
    {<<"l","o","g","i","n">>, <<"L","o","g","i","n">>, <<"L","O","G","I","N">>}

brokenSelector(elementType, description) ==
    [primary |-> Sel("[data-test=\"non-existent\"]"),
     fallbacks |-> <<Sel("input[type=\"text\"]")>>,
     description |-> description,
     elementType |-> elementType]

CallFind(e) ==
    /\ e \in engines
    /\ pc[e] = "idle"
    /\ Len(healingLog[e]) <= MaxLog
    /\ \E t \in ElementTypes, d \in Descriptions :
         \E vis \in PageStates(brokenSelector(t, d)) :
            Begin(e, "findElement", brokenSelector(t, d), <<>>, vis, <<>>)

NextFind ==
    \/ \E e \in EngineIds : CallFind(e)
    \/ \E e \in EngineIds : WaitPrimary(e)
    \/ \E e \in EngineIds : WaitFallback(e)
    \/ \E e \in EngineIds : WaitHeuristic(e)
    \/ \E e \in EngineIds : Screenshot(e)
    \/ \E e \in EngineIds : Resume(e)

\* The engine is built with no config or with every field given.
InitFind ==
    \E partial \in {p \in PartialConfigs : p.has # {"maxRetries"} /\ p.val.maxRetries = 1} :
        InitWith(partial)

SpecFind == InitFind /\ [][NextFind]_vars

(***************************************************************************)
(* Observations on a finished operation                                    *)
(***************************************************************************)
IsWait(ev) == ev.op = "waitFor"
IsTactic(ev) == ev.op \notin {"waitFor", "screenshot", "waitForTimeout"}
IsScreenshot(ev) == ev.op = "screenshot"

Sels(evs) == [i \in 1..Len(evs) |-> evs[i].sel]
OpsOf(evs) == [i \in 1..Len(evs) |-> evs[i].op]

\* The selectors findElement waited for, in order.
Attempted(e) == Sels(SelectSeq(trace[e], IsWait))
\* The action tactics (everything but waits, screenshots and backoff sleeps), in order.
Tactics(e) == SelectSeq(trace[e], IsTactic)
Screenshots(e) == SelectSeq(trace[e], IsScreenshot)

\* The entries the operation has appended to the healing log.
Added(e) == SubSeq(healingLog[e], Len(logStart[e]) + 1, Len(healingLog[e]))

TacticTags == {Sel("force-click"), Sel("js-click"), Sel("keyboard-fill"), Sel("js-fill")}
IsTacticEntry(entry) == entry.healed \in TacticTags
IsFailedEntry(entry) == entry.status = "FAILED"
IsHealedEntry(entry) == entry.status = "HEALED"

\* No candidate of the strategy is visible on the page.
NothingVisible(s) == visible \cap Range(Candidates(s)) = {}

FailedEntry(s) ==
    [status |-> "FAILED", description |-> s.description, original |-> s.primary, healed |-> Sel("FAILED")]

HeuristicSels(s) == Range(intelligentFallback(s.elementType, s.description))

(***************************************************************************)
(* C1: when the primary fails, fallbacks[0..i-1] fail and fallbacks[i]     *)
(* succeeds, findElement returns the locator of fallbacks[i], having       *)
(* waited for exactly primary, fallbacks[0], ..., fallbacks[i] in that     *)
(* order, and for nothing else (no later fallback, no heuristic).          *)
(***************************************************************************)
C1_FallbackOrder ==
    \A e \in engines :
      (pc[e] = "done" /\ call[e].op = "findElement") =>
        LET s == call[e].strategy IN
        \A i \in 1..Len(s.fallbacks) :
          ( /\ s.primary \notin visible
            /\ \A j \in 1..(i - 1) : s.fallbacks[j] \notin visible
            /\ s.fallbacks[i] \in visible )
          => /\ result[e] = Locator(s.fallbacks[i])
             /\ Attempted(e) = <<s.primary>> \o SubSeq(s.fallbacks, 1, i)
             /\ Len(trace[e]) = i + 1

C1_Witness ==
    \E e \in engines :
      /\ pc[e] = "done" /\ call[e].op = "findElement"
      /\ Len(call[e].strategy.fallbacks) >= 2
      /\ call[e].strategy.primary \notin visible
      /\ call[e].strategy.fallbacks[1] \notin visible
      /\ call[e].strategy.fallbacks[2] \in visible
      /\ result[e] = Locator(call[e].strategy.fallbacks[2])

(***************************************************************************)
(* C2: when the primary selector is visible, findElement returns the       *)
(* primary locator, waits for no fallback and no heuristic candidate,      *)
(* takes no screenshot and leaves the healing log unchanged.               *)
(***************************************************************************)
C2_PrimaryShortCircuit ==
    \A e \in engines :
      (pc[e] = "done" /\ call[e].op = "findElement" /\ call[e].strategy.primary \in visible) =>
        /\ result[e] = Locator(call[e].strategy.primary)
        /\ trace[e] = <<Ev("waitFor", call[e].strategy.primary, <<>>, PrimaryTimeout, TRUE)>>
        /\ healingLog[e] = logStart[e]

C2_Witness ==
    \E e \in engines :
      /\ pc[e] = "done" /\ call[e].op = "findElement"
      /\ call[e].strategy.primary \in visible
      /\ result[e].kind = "locator"

(***************************************************************************)
(* C3: when the primary, every fallback and every heuristic candidate      *)
(* fail, findElement returns null, appends exactly one FAILED entry and    *)
(* no HEALED entry, and a screenshot is captured iff screenshotOnFailure.  *)
(***************************************************************************)
C3_TotalFailure ==
    \A e \in engines :
      (pc[e] = "done" /\ call[e].op = "findElement" /\ NothingVisible(call[e].strategy)) =>
        /\ result[e] = Null
        /\ Added(e) = <<FailedEntry(call[e].strategy)>>
        /\ (\E k \in 1..Len(trace[e]) : trace[e][k].op = "screenshot" /\ trace[e][k].ok)
              <=> config[e].screenshotOnFailure

(***************************************************************************)
(* C4: findElement never throws; a resolution failure is returned as null. *)
(***************************************************************************)
C4_FindElementNeverThrows ==
    \A e \in engines :
      (pc[e] = "done" /\ call[e].op = "findElement") => result[e].kind # "throw"

(***************************************************************************)
(* C5: when all candidates fail, screenshotOnFailure is set and the        *)
(* screenshot itself fails, the FAILED entry is still appended and the     *)
(* caller still sees the resolution failure: null from findElement and     *)
(* getText, false from click and fill, the wrapper's "Failed to ..." error *)
(* from the page object, never the screenshot's error.                     *)
(***************************************************************************)
ScreenshotFailed(e) ==
    \E k \in 1..Len(trace[e]) : trace[e][k].op = "screenshot" /\ ~trace[e][k].ok

C5_ScreenshotFaultTolerant ==
    \A e \in engines :
      (pc[e] \in {"done", "wrapped"} /\ ScreenshotFailed(e)) =>
        /\ Added(e) = <<FailedEntry(call[e].strategy)>>
        /\ pc[e] = "done" =>
             result[e] = (IF call[e].op \in {"click", "fill"} THEN False ELSE Null)
        /\ pc[e] = "wrapped" =>
             /\ result[e].kind = "throw"
             /\ result[e].err.msg = WrapperMessage(call[e].op)

(***************************************************************************)
(* C6: after a successful resolution, click tries the standard click (at   *)
(* most maxRetries times), then the forced click, then the script click,   *)
(* in that order; every tactic before the last one tried has failed; it    *)
(* returns true iff the last one tried succeeded, and false only after     *)
(* all maxRetries + 2 attempts have failed.                                *)
(***************************************************************************)
ClickPlan(e) ==
    [i \in 1..(config[e].maxRetries + 2) |->
        IF i <= config[e].maxRetries THEN "click"
        ELSE IF i = config[e].maxRetries + 1 THEN "click.force" ELSE "evaluate.click"]

C6_ClickEscalationOrder ==
    \A e \in engines :
      (pc[e] = "done" /\ call[e].op = "click" /\ element[e] # NoSel) =>
        LET t == Tactics(e)
            n == Len(t)
        IN /\ n >= 1 /\ n <= Len(ClickPlan(e))
           /\ OpsOf(t) = SubSeq(ClickPlan(e), 1, n)
           /\ \A k \in 1..(n - 1) : ~t[k].ok
           /\ \A k \in 1..n : t[k].sel = element[e]
           /\ result[e] = (IF t[n].ok THEN True ELSE False)
           /\ result[e] = False => n = Len(ClickPlan(e))

C6_Witness ==
    \E e \in engines :
      /\ pc[e] = "done" /\ call[e].op = "click" /\ element[e] # NoSel
      /\ result[e] = True
      /\ Len(Tactics(e)) = config[e].maxRetries + 2
      /\ config[e].maxRetries >= 2

(***************************************************************************)
(* C7: when resolution fails, click and fill return false and getText      *)
(* returns null, no action tactic is attempted, and the candidates are     *)
(* waited for once only.                                                   *)
(***************************************************************************)
C7_NoActionAfterFailedResolution ==
    \A e \in engines :
      (pc[e] = "done" /\ call[e].op \in {"click", "fill", "getText"}
         /\ NothingVisible(call[e].strategy)) =>
        /\ result[e] = (IF call[e].op = "getText" THEN Null ELSE False)
        /\ Tactics(e) = <<>>
        /\ Attempted(e) = Candidates(call[e].strategy)

(***************************************************************************)
(* C8 (as stated): the number of entries an action appends after           *)
(* resolution equals the number of escalation steps it attempted, failed   *)
(* steps and getText's alternate accessors included.                       *)
(***************************************************************************)
\* An escalation step that is attempted: the forced and script clicks, the
\* keyboard fill (it opens with a click), the script fill, the alternate text accessors.
IsEscalationStart(op, ev) ==
    \/ ev.op \in {"click.force", "evaluate.click", "evaluate.value", "innerText", "evaluate.textContent"}
    \/ op = "fill" /\ ev.op = "click"

\* An escalation step that has worked.
IsEscalationSuccess(ev) ==
    ev.ok /\ ev.op \in {"click.force", "evaluate.click", "keyboard.type", "evaluate.value"}

EscalationsAttempted(e) ==
    Cardinality({k \in 1..Len(trace[e]) : IsEscalationStart(call[e].op, trace[e][k])})

EscalationsSucceeded(e) ==
    Cardinality({k \in 1..Len(trace[e]) : IsEscalationSuccess(trace[e][k])})

TacticEntries(e) == SelectSeq(Added(e), IsTacticEntry)

C8_EveryEscalationLogged ==
    \A e \in engines :
      pc[e] = "done" => Len(TacticEntries(e)) = EscalationsAttempted(e)

(***************************************************************************)
(* C8 (amended): an escalation step of click or fill appends one entry,    *)
(* naming its tactic, exactly when it succeeds; a step that fails and      *)
(* getText's alternate accessors append none.  So an action adds, after    *)
(* resolution, as many entries as escalation steps succeeded (0 or 1).     *)
(***************************************************************************)
TagOf(ev) ==
    CASE ev.op = "click.force" -> Sel("force-click")
      [] ev.op = "evaluate.click" -> Sel("js-click")
      [] ev.op = "keyboard.type" -> Sel("keyboard-fill")
      [] OTHER -> Sel("js-fill")

C8_SuccessfulEscalationLogged ==
    \A e \in engines :
      pc[e] = "done" =>
        /\ Len(TacticEntries(e)) = EscalationsSucceeded(e)
        /\ Len(TacticEntries(e)) <= 1
        /\ \A k \in 1..Len(trace[e]) :
             IsEscalationSuccess(trace[e][k]) =>
               /\ k = Len(trace[e])
               /\ Added(e)[Len(Added(e))] =
                    [status |-> "HEALED", description |-> call[e].strategy.description,
                     original |-> call[e].strategy.primary, healed |-> TagOf(trace[e][k])]
        /\ Len(Added(e)) = Len(TacticEntries(e))
             + (IF Len(Attempted(e)) > 1 /\ result[e].kind # "throw" THEN 1 ELSE 0)

C8_Witness ==
    \E e \in engines :
      /\ pc[e] = "done" /\ call[e].op = "click"
      /\ EscalationsAttempted(e) = 2
      /\ EscalationsSucceeded(e) = 1
      /\ Len(TacticEntries(e)) = 1

(***************************************************************************)
(* C9: when the element resolves, every standard click is rejected and     *)
(* the forced click is accepted, click returns true, never tries the       *)
(* script click, and appends exactly one entry for the forced click        *)
(* (primary selector, description, force-click), after whatever entry the  *)
(* resolution appended.                                                    *)
(***************************************************************************)
ForcedClickAccepted(e) ==
    /\ pc[e] = "done" /\ call[e].op = "click" /\ element[e] # NoSel
    /\ \A k \in 1..Len(trace[e]) : trace[e][k].op = "click" => ~trace[e][k].ok
    /\ \E k \in 1..Len(trace[e]) : trace[e][k].op = "click.force" /\ trace[e][k].ok

C9_ForcedClickLogged ==
    \A e \in engines :
      ForcedClickAccepted(e) =>
        /\ result[e] = True
        /\ \A k \in 1..Len(trace[e]) : trace[e][k].op # "evaluate.click"
        /\ Len(TacticEntries(e)) = 1
        /\ Len(Added(e)) >= 1
        /\ Added(e)[Len(Added(e))] =
             [status |-> "HEALED", description |-> call[e].strategy.description,
              original |-> call[e].strategy.primary, healed |-> Sel("force-click")]
        /\ Len(Added(e)) = (IF element[e] = call[e].strategy.primary THEN 1 ELSE 2)

C9_Witness ==
    \E e \in engines :
      /\ ForcedClickAccepted(e)
      /\ element[e] # call[e].strategy.primary
      /\ Len(Added(e)) = 2

(***************************************************************************)
(* C10: fill tries clear+fill (inside the retry), then click + Control+a   *)
(* + keyboard typing, then direct value assignment, each with the caller's *)
(* value; whenever fill returns true the input's value is that value.      *)
(***************************************************************************)
C10_FillSetsExactValue ==
    \A e \in engines :
      (pc[e] = "done" /\ call[e].op = "fill") =>
        /\ \A k \in 1..Len(trace[e]) :
             trace[e][k].op \in {"fill", "keyboard.type", "evaluate.value"} =>
               trace[e][k].val = call[e].value
        /\ result[e] = True => inputValue = call[e].value

(***************************************************************************)
(* C11: getText returns null only if resolution failed or all three        *)
(* extraction tactics (textContent, innerText, script read) failed; when   *)
(* the element resolves and some tactic completes, the returned value is a *)
(* string, possibly empty, and not null.                                   *)
(***************************************************************************)
Resolved(e) == \E k \in 1..Len(trace[e]) : IsWait(trace[e][k]) /\ trace[e][k].ok

ReadPlan == <<"textContent", "innerText", "evaluate.textContent">>

C11_GetTextNullOnlyOnFailure ==
    \A e \in engines :
      (pc[e] = "done" /\ call[e].op = "getText") =>
        LET reads == Tactics(e) IN
        /\ result[e].kind = "null" =>
              \/ ~Resolved(e)
              \/ /\ OpsOf(reads) = ReadPlan
                 /\ \A k \in 1..Len(reads) : ~reads[k].ok
        /\ (Resolved(e) /\ \E k \in 1..Len(reads) : reads[k].ok) =>
              /\ result[e].kind = "text"
              /\ result[e].text \in Texts

\* getText read the empty string with innerText after textContent was rejected.
C11_Witness ==
    \E e \in engines :
      /\ pc[e] = "done" /\ call[e].op = "getText"
      /\ OpsOf(Tactics(e)) = <<"textContent", "innerText">>
      /\ ~Tactics(e)[1].ok /\ Tactics(e)[2].ok
      /\ result[e] = Text(<<>>)

(***************************************************************************)
(* C12: healingClick, healingFill, healingGetText and healingFindElement   *)
(* never return a failure value: each returns the successful result (true, *)
(* the text, the locator) or throws an Error whose message names both the  *)
(* strategy's description and its primary selector.                        *)
(***************************************************************************)
C12_WrappersNeverReturnFailure ==
    \A e \in engines :
      pc[e] = "wrapped" =>
        \/ /\ call[e].op = "findElement" /\ result[e].kind = "locator"
        \/ /\ call[e].op \in {"click", "fill"} /\ result[e] = True
        \/ /\ call[e].op = "getText" /\ result[e].kind = "text"
        \/ /\ result[e].kind = "throw"
           /\ result[e].err.description = call[e].strategy.description
           /\ result[e].err.primary = call[e].strategy.primary

(***************************************************************************)
(* C13: in retryOperation the delay awaited after failed attempt k         *)
(* (1 <= k < maxRetries) is retryDelay * 2^(k-1); the delays are           *)
(* non-decreasing, maxRetries-1 of them are awaited when every attempt     *)
(* fails, and no delay follows the final attempt.                          *)
(***************************************************************************)
IsDelay(ev) == ev.op = "waitForTimeout"
Delays(e) == SelectSeq(trace[e], IsDelay)

\* The attempts of the retried operation that failed: element.click() for click,
\* element.clear() or element.fill() for fill.
FailedAttempts(e) ==
    SelectSeq(trace[e],
        LAMBDA ev : /\ ~ev.ok
                    /\ ev.op \in (IF call[e].op = "click" THEN {"click"} ELSE {"clear", "fill"}))

InRetry(e) == call[e].op \in {"click", "fill"} /\ Resolved(e)

C13_BackoffDelays ==
    \A e \in engines :
      InRetry(e) =>
        LET waits == Delays(e)
            failed == Len(FailedAttempts(e))
        IN /\ \A k \in 1..Len(waits) : waits[k].ms = config[e].retryDelay * 2^(k - 1)
           /\ \A k \in 1..(Len(waits) - 1) : waits[k].ms <= waits[k + 1].ms
           /\ failed <= config[e].maxRetries
           /\ Len(waits) = IF failed = config[e].maxRetries THEN failed - 1 ELSE failed

\* Three attempts of a click failed under the default config: 1000 ms and 2000 ms were awaited.
C13_Witness ==
    \E e \in engines :
      /\ call[e].op = "click" /\ pc[e] = "click.force"
      /\ config[e].maxRetries = 3
      /\ Len(FailedAttempts(e)) = 3
      /\ [k \in 1..Len(Delays(e)) |-> Delays(e)[k].ms] = <<1000, 2000>>

(***************************************************************************)
(* C14: retryOperation invokes the operation at most maxRetries times,     *)
(* stops at the first attempt that succeeds (click and fill then return    *)
(* true), and when all maxRetries attempts fail it throws the error of the *)
(* last attempt, not of an earlier one, to its caller.                     *)
(***************************************************************************)
\* The invocations of the retried operation: each starts with element.click()
\* for click and with element.clear() for fill.
Invocations(e) ==
    SelectSeq(trace[e],
        LAMBDA ev : ev.op = (IF call[e].op = "click" THEN "click" ELSE "clear"))

\* The surface call that completes an attempt: element.click(), element.fill(value).
CompletesAttempt(e, ev) ==
    ev.ok /\ ev.op = (IF call[e].op = "click" THEN "click" ELSE "fill")

C14_RetryCountAndLastError ==
    \A e \in engines :
      InRetry(e) =>
        LET failed == FailedAttempts(e)
            n == config[e].maxRetries
        IN /\ Len(Invocations(e)) <= n
           /\ Len(failed) <= n
           /\ \A k \in 1..Len(trace[e]) :
                 CompletesAttempt(e, trace[e][k]) =>
                   /\ k = Len(trace[e])
                   /\ Len(failed) < n
                   /\ pc[e] \in {"done", "wrapped"} /\ result[e] = True
           /\ IF Len(failed) = n
              THEN error[e] = Rejection(failed[n], n)
              ELSE error[e] = Undefined

\* Both attempts of a fill failed, the first in clear and the second in fill:
\* the caller's catch block holds the error of the second.
C14_Witness ==
    \E e \in engines :
      /\ call[e].op = "fill" /\ pc[e] = "fill.click"
      /\ config[e].maxRetries = 2
      /\ OpsOf(FailedAttempts(e)) = <<"clear", "fill">>
      /\ error[e] = Rejection(FailedAttempts(e)[2], 2)
      /\ error[e].of = "fill"

(***************************************************************************)
(* C15: the healing log is append-only.  In every step of findElement,     *)
(* click, fill, getText, getHealingLog and exportHealingReport the log     *)
(* before is a prefix of the log after: no entry is removed, reordered or  *)
(* rewritten.  Only clearLog shortens the log, and it leaves it empty.     *)
(***************************************************************************)
IsPrefix(s, t) == Len(s) <= Len(t) /\ SubSeq(t, 1, Len(s)) = s

C15_LogAppendOnly ==
    [][\A e \in EngineIds :
          \/ IsPrefix(healingLog[e], healingLog'[e])
          \/ clearLog(e) /\ healingLog'[e] = <<>>]_vars

\* An operation has appended a second entry behind the first.
C15_Witness ==
    \E e \in engines :
      /\ pc[e] = "done"
      /\ Len(healingLog[e]) = 2
      /\ Len(Added(e)) = 2

(***************************************************************************)
(* C16: getHealingLog is a read-only snapshot.  Every array it has         *)
(* returned since the test last called anything else held, when returned,  *)
(* the log as it is now: two calls return equal sequences, the call leaves *)
(* the log unchanged, and writing to a returned array changes neither the  *)
(* engine's log nor what a later call returns.                             *)
(***************************************************************************)
C16_GetHealingLogSnapshot ==
    \A e \in engines :
      \A i \in 1..Len(held[e]) : held[e][i].returned = healingLog[e]

\* The test wrote to the first array it was given and then asked again: the
\* second array is the log, the first no longer is.
C16_Witness ==
    \E e \in engines :
      /\ healingLog[e] # <<>>
      /\ Len(held[e]) = 2
      /\ Modified(held[e][1])
      /\ held[e][2].after
      /\ held[e][2].items = healingLog[e]

(***************************************************************************)
(* C17: a failure to write the healing report is never propagated:         *)
(* exportHealingReport completes without throwing when the filesystem      *)
(* write fails, and the healing log is unchanged by the export.            *)
(***************************************************************************)
C17_ExportNeverThrows ==
    \A e \in engines :
      /\ exporting[e] # "threw"
      /\ exporting[e] \in {"write", "written", "threw"} => healingLog[e] = report[e].healingLog

(***************************************************************************)
(* C18: the document written by exportHealingReport has the engine's       *)
(* current log in insertion order as healingLog, that log's length as      *)
(* totalHealingAttempts and the engine's active config as config; right    *)
(* after a total resolution failure its last healingLog entry is a FAILED  *)
(* entry.                                                                  *)
(***************************************************************************)
Last(s) == s[Len(s)]

\* exportHealingReport was called right after a findElement for which no candidate was visible.
AfterTotalFailure(e) ==
    pc[e] = "done" /\ call[e].op = "findElement" /\ NothingVisible(call[e].strategy)

C18_ExportedDocument ==
    \A e \in engines :
      exporting[e] = "written" =>
        /\ document[e].healingLog = healingLog[e]
        /\ document[e].totalHealingAttempts = Len(healingLog[e])
        /\ document[e].config = config[e]
        /\ AfterTotalFailure(e) =>
              /\ document[e].healingLog # <<>>
              /\ IsFailedEntry(Last(document[e].healingLog))

(***************************************************************************)
(* C19: when the primary fails and some fallback succeeds, findElement     *)
(* appends exactly one log entry: it is marked HEALED and holds the        *)
(* strategy's description, the primary selector and the fallback selector  *)
(* that succeeded; the fallbacks that failed before it add no entries.     *)
(***************************************************************************)
HealedEntry(s, fallbackSelector) ==
    [status |-> "HEALED", description |-> s.description,
     original |-> s.primary, healed |-> fallbackSelector]

C19_FallbackHealedEntry ==
    \A e \in engines :
      (pc[e] = "done" /\ call[e].op = "findElement") =>
        LET s == call[e].strategy IN
        \A i \in 1..Len(s.fallbacks) :
          ( /\ s.primary \notin visible
            /\ \A j \in 1..(i - 1) : s.fallbacks[j] \notin visible
            /\ s.fallbacks[i] \in visible )
          => Added(e) = <<HealedEntry(s, s.fallbacks[i])>>

\* The second fallback was the first candidate to be visible.
C19_Witness ==
    \E e \in engines :
      LET s == call[e].strategy IN
      /\ pc[e] = "done" /\ call[e].op = "findElement"
      /\ Len(s.fallbacks) >= 2
      /\ visible = {s.fallbacks[2]}
      /\ healingLog[e] = <<HealedEntry(s, s.fallbacks[2])>>

(***************************************************************************)
(* C20: two engine instances on the same page share no mutable state.      *)
(* Under any interleaving of their operations a step that changes one      *)
(* instance's healing log (an append or a clear) is no step of another     *)
(* instance and leaves every other log as it was, and the config of an     *)
(* existing instance never changes.                                        *)
(***************************************************************************)
C20_EnginesIndependent ==
    [][\A e \in engines :
          /\ config'[e] = config[e]
          /\ healingLog'[e] # healingLog[e] =>
                \A f \in EngineIds \ {e} :
                   /\ healingLog'[f] = healingLog[f]
                   /\ pc'[f] = pc[f] /\ trace'[f] = trace[f]]_vars

\* Both engines have logged, differently, under different configs.
C20_Witness ==
    /\ engines = {1, 2}
    /\ config[1] # config[2]
    /\ healingLog[1] # <<>> /\ healingLog[2] # <<>>
    /\ healingLog[1] # healingLog[2]

(***************************************************************************)
(* C21: the active configuration of an engine is fixed at construction.   *)
(* Every field the caller supplied holds the supplied value, every field   *)
(* the caller left out holds its default (maxRetries 3, retryDelay 1000,   *)
(* enableLogging true, screenshotOnFailure true), and no step of any       *)
(* operation changes the configuration of an engine that exists.           *)
(***************************************************************************)
ConfigAsConstructed(e) ==
    LET given == supplied[e]
        Has(f) == f \in DOMAIN given IN
    /\ config[e].maxRetries = IF Has("maxRetries") THEN given["maxRetries"] ELSE 3
    /\ config[e].retryDelay = IF Has("retryDelay") THEN given["retryDelay"] ELSE 1000
    /\ config[e].enableLogging = IF Has("enableLogging") THEN given["enableLogging"] ELSE TRUE
    /\ config[e].screenshotOnFailure =
          IF Has("screenshotOnFailure") THEN given["screenshotOnFailure"] ELSE TRUE

C21_ConfigFixedAtConstruction ==
    /\ [](\A e \in engines : ConfigAsConstructed(e))
    /\ [][\A e \in engines : config'[e] = config[e]]_vars

\* An engine built with maxRetries alone has run a click through its escalation:
\* maxRetries is the supplied one, the other fields are the defaults.
C21_Witness ==
    \E e \in engines :
        /\ DOMAIN supplied[e] = {"maxRetries"}
        /\ config[e].maxRetries = supplied[e]["maxRetries"]
        /\ config[e].maxRetries # 3
        /\ config[e].retryDelay = 1000
        /\ config[e].screenshotOnFailure
        /\ pc[e] = "done"
        /\ call[e].op = "click"
        /\ Len(Tactics(e)) > config[e].maxRetries

(***************************************************************************)
(* C22: within one findElement call the candidates are probed one at a     *)
(* time and in order.  As stated: the attempted candidates are a prefix of *)
(* [primary, fallbacks in listed order, heuristic candidates in generator  *)
(* order], every attempt but the last failed, and no candidate is          *)
(* attempted twice.                                                        *)
(***************************************************************************)
Waits(e) == SelectSeq(trace[e], IsWait)

InListedOrder(e) ==
    /\ IsPrefix(Attempted(e), Candidates(call[e].strategy))
    /\ \A i \in 1..(Len(Waits(e)) - 1) : ~Waits(e)[i].ok

Occurrences(seq, c) == Cardinality({i \in 1..Len(seq) : seq[i] = c})

C22_NoCandidateTwice ==
    \A e \in engines :
        /\ InListedOrder(e)
        /\ \A c \in Range(Attempted(e)) : Occurrences(Attempted(e), c) = 1

(***************************************************************************)
(* C22, amended: the attempted candidates are a prefix of the candidate    *)
(* list that ends at the first success, a step of the engine starts at     *)
(* most one wait, and a selector is waited for at most once per place it   *)
(* holds in the list: a selector that is both a listed fallback and a      *)
(* generated heuristic candidate is waited for at both places.             *)
(***************************************************************************)
OneWaitPerStep(e) ==
    LET after == SelectSeq(trace'[e], IsWait) IN
    \/ after = Waits(e)
    \/ after = <<>>
    \/ after = Append(Waits(e), Last(after))

C22_SequentialProbing ==
    /\ [](\A e \in engines :
            /\ InListedOrder(e)
            /\ \A c \in Range(Attempted(e)) :
                  Occurrences(Attempted(e), c) <= Occurrences(Candidates(call[e].strategy), c))
    /\ [][\A e \in engines : OneWaitPerStep(e)]_vars

\* The login button was found by a heuristic candidate after its fallback
\* button[type="submit"] had been waited for a second time as a heuristic candidate.
C22_Witness ==
    \E e \in engines :
        /\ pc[e] = "done" /\ call[e].op = "findElement"
        /\ result[e].kind = "locator"
        /\ Last(Waits(e)).ok
        /\ Last(Waits(e)).ms = HeuristicTimeout
        /\ Occurrences(Attempted(e), Sel("button[type=\"submit\"]")) = 2

(***************************************************************************)
(* C23: the wait timeouts are tiered.  In every findElement call the       *)
(* timeout of the wait for the primary is strictly shorter than the        *)
(* timeout of each wait for a fallback, and the timeout of each wait for   *)
(* a heuristic candidate is no longer than the primary's.                  *)
(***************************************************************************)
C23_TimeoutTiers ==
    \A e \in engines :
      LET waits == Waits(e)
          lastFallback == 1 + Len(call[e].strategy.fallbacks) IN
      \A i \in 2..Len(waits) :
          IF i <= lastFallback
          THEN waits[1].ms < waits[i].ms
          ELSE waits[i].ms <= waits[1].ms

(***************************************************************************)
(* C24: for a button whose description contains 'login' the heuristic      *)
(* candidates are the six description-based ones followed by               *)
(* button[type="submit"], [data-test*="login"], [id*="login"], .login-btn. *)
(* When the primary and every fallback fail and only button[type="submit"] *)
(* matches the page, findElement returns that element and appends exactly  *)
(* one entry, HEALED, whose healed selector is 'intelligent-fallback'.     *)
(***************************************************************************)
IsLoginButton(s) ==
    s.elementType = "button" /\ includes(toLowerCase(s.description), kwLogin)

LoginCandidates ==
    <<Sel("button[type=\"submit\"]"), Sel("[data-test*=\"login\"]"),
      Sel("[id*=\"login\"]"), Sel(".login-btn")>>

\* The selectors waited for after the primary and the fallbacks.
HeuristicsAttempted(e) ==
    SubSeq(Attempted(e), 2 + Len(call[e].strategy.fallbacks), Len(Attempted(e)))

SubmitButton == Sel("button[type=\"submit\"]")

C24_LoginButtonHeuristics ==
    \A e \in engines :
      LET s == call[e].strategy IN
      (pc[e] = "done" /\ call[e].op = "findElement" /\ IsLoginButton(s)) =>
        /\ NothingVisible(s) =>
              /\ Len(HeuristicsAttempted(e)) = 10
              /\ \A i \in 1..6 : HeuristicsAttempted(e)[i].arg = toLowerCase(s.description)
              /\ SubSeq(HeuristicsAttempted(e), 7, 10) = LoginCandidates
        /\ (visible = {SubmitButton} /\ SubmitButton \notin Range(<<s.primary>> \o s.fallbacks)) =>
              /\ result[e] = Locator(SubmitButton)
              /\ Len(HeuristicsAttempted(e)) = 7
              /\ Added(e) = <<HealedEntry(s, Sel("intelligent-fallback"))>>

\* The broken login button was found as button[type="submit"], the seventh heuristic candidate.
C24_Witness ==
    \E e \in engines :
        /\ pc[e] = "done" /\ call[e].op = "findElement"
        /\ IsLoginButton(call[e].strategy)
        /\ visible = {SubmitButton}
        /\ SubmitButton \notin Range(<<call[e].strategy.primary>> \o call[e].strategy.fallbacks)
        /\ result[e] = Locator(SubmitButton)
        /\ Last(healingLog[e]).healed = Sel("intelligent-fallback")

(***************************************************************************)
(* C25: the heuristic candidate list depends on nothing but the element    *)
(* type and the lower-cased description.  Whatever the engine's config and *)
(* log and whenever it is called, the heuristic candidates it waits for    *)
(* are the start of the list of every description that differs from the    *)
(* strategy's in letter case only, and for an element type outside the     *)
(* declared ones they are the generic list.                                *)
(***************************************************************************)
DeclaredTypes == {"button", "input", "link", "text", "generic"}

GenericCandidates(d) ==
    <<Tpl("[data-test*=\"${description}\"]", d), Tpl("[data-testid*=\"${description}\"]", d),
      Tpl("[id*=\"${description}\"]", d), Tpl("[class*=\"${description}\"]", d),
      Tpl("[aria-label*=\"${description}\"]", d), Tpl(":has-text(\"${description}\")", d)>>

C25_HeuristicsPure ==
    \A e \in engines :
      LET s == call[e].strategy IN
      /\ \A d \in Descriptions :
            toLowerCase(d) = toLowerCase(s.description) =>
               IsPrefix(HeuristicsAttempted(e), intelligentFallback(s.elementType, d))
      /\ (call[e].op # "none" /\ s.elementType \notin DeclaredTypes) =>
            IsPrefix(HeuristicsAttempted(e), GenericCandidates(toLowerCase(s.description)))
      /\ (pc[e] = "done" /\ NothingVisible(s) /\ call[e].op # "none") =>
            Len(HeuristicsAttempted(e)) = Len(intelligentFallback(s.elementType, s.description))

\* An engine that had logged before was asked for an element of an undeclared
\* type described in capitals: it went through the whole generic list for the
\* lower-cased description.
C25_Witness ==
    \E e \in engines :
        /\ pc[e] = "done"
        /\ call[e].strategy.elementType = "image"
        /\ call[e].strategy.description = <<"L","O","G","I","N">>
        /\ logStart[e] # <<>>
        /\ HeuristicsAttempted(e) = GenericCandidates(<<"l","o","g","i","n">>)

(***************************************************************************)
(* C26: every operation is bounded and ends.  A findElement call makes at  *)
(* most 1 + |fallbacks| + |heuristic candidates| waits and takes at most   *)
(* one screenshot; a click or fill makes at most maxRetries standard       *)
(* attempts and at most two escalation attempts (getText at most its three *)
(* reads); and every operation that was started comes to its end.          *)
(***************************************************************************)
Bounded(e) ==
    LET s == call[e].strategy IN
    /\ Len(Waits(e)) <= 1 + Len(s.fallbacks) + Len(intelligentFallback(s.elementType, s.description))
    /\ Len(Screenshots(e)) <= 1
    /\ call[e].op \in {"click", "fill"} =>
          /\ Len(Invocations(e)) <= config[e].maxRetries
          /\ EscalationsAttempted(e) <= 2
    /\ call[e].op = "getText" => Len(Tactics(e)) <= 3
    /\ call[e].op = "findElement" => Len(Tactics(e)) = 0

C26_Terminates ==
    /\ [](\A e \in engines : Bounded(e))
    /\ \A e \in EngineIds : (pc[e] # "idle") ~> (pc[e] = "done")

\* A click came to its end after every candidate of the resolution but the last
\* had timed out and every tactic had been used.
C26_Witness ==
    \E e \in engines :
        /\ pc[e] = "done" /\ call[e].op = "click"
        /\ Len(Waits(e)) = Len(Candidates(call[e].strategy))
        /\ Len(Invocations(e)) = config[e].maxRetries
        /\ EscalationsAttempted(e) = 2

(***************************************************************************)
(* C27: a fill that fails leaves the input as it found it.  When fill      *)
(* returns false after the element was resolved, so every tactic failed,   *)
(* the input holds the value it held before the call: it was not left      *)
(* cleared and holds no partly typed text.                                 *)
(***************************************************************************)
C27_FailedFillLeavesInput ==
    \A e \in engines :
      (pc[e] = "done" /\ call[e].op = "fill" /\ result[e] = False /\ Resolved(e)) =>
          inputValue = inputStart

(***************************************************************************)
(* C28: whatever maxRetries is, 0 and negative included, retryOperation    *)
(* invokes the operation at least once and what it throws is an error the  *)
(* operation raised: once click or fill has left retryOperation the        *)
(* standard tactic has been attempted, and an escalation is entered with   *)
(* the rejection of a standard attempt as the caught error.                *)
(***************************************************************************)
EscalationSteps ==
    {"click.force", "click.js", "fill.click", "fill.press", "fill.type", "fill.js"}

InRetryOperation(e) == pc[e] \in {"click.standard", "fill.clear", "fill.fill"}

C28_StandardTacticAlwaysAttempted ==
    \A e \in engines :
      (InRetry(e) /\ ~InRetryOperation(e)) =>
          /\ Len(Invocations(e)) >= 1
          /\ (EscalationsAttempted(e) > 0 \/ pc[e] \in EscalationSteps) => error[e] # Undefined

(***************************************************************************)
(* C29: healingWaitForElement returns the locator of the first poll that   *)
(* finds the element and otherwise throws the timeout error naming the     *)
(* description and the primary selector; it never returns null.  However   *)
(* many polls one call makes, it appends at most one FAILED entry to the   *)
(* healing log and takes at most one failure screenshot.                   *)
(***************************************************************************)
C29_WaitForElement ==
    \A e \in engines :
      call[e].op = "waitForElement" =>
        /\ pc[e] = "done" =>
              \/ /\ result[e].kind = "locator"
                 /\ Last(Waits(e)).ok
                 /\ result[e].loc = Last(Waits(e)).sel
                 /\ \A i \in 1..(Len(Waits(e)) - 1) : ~Waits(e)[i].ok
              \/ /\ result[e] = Throw(TimeoutError(call[e].strategy))
                 /\ Elapsed(trace[e]) >= call[e].timeout
        /\ Len(SelectSeq(Added(e), IsFailedEntry)) <= 1
        /\ Len(Screenshots(e)) <= 1

(***************************************************************************)
(* C30: the healing log does not depend on enableLogging.  Two engines     *)
(* whose configs differ in enableLogging only, given the same operation    *)
(* against the same page with the same outcomes of the surface calls,      *)
(* return the same value and hold the same log entries (same number, same  *)
(* statuses, descriptions and selectors).                                  *)
(***************************************************************************)
SameRun ==
    /\ pc[1] = "done" /\ pc[2] = "done"
    /\ call[1] = call[2]
    /\ trace[1] = trace[2]

C30_LogIndependentOfLogging ==
    /\ config[1].enableLogging # config[2].enableLogging
    /\ [config[1] EXCEPT !.enableLogging = TRUE] = [config[2] EXCEPT !.enableLogging = TRUE]
    /\ SameRun => /\ result[1] = result[2]
                  /\ healingLog[1] = healingLog[2]

\* Both engines, one logging to the console and one not, failed to find the
\* element and hold the same FAILED entry.
C30_Witness ==
    /\ SameRun
    /\ config[1].enableLogging /\ ~config[2].enableLogging
    /\ result[1] = Null /\ result[2] = Null
    /\ Len(healingLog[1]) = 1 /\ IsFailedEntry(healingLog[1][1])
    /\ healingLog[2] = healingLog[1]

====
